---- MODULE Spec2Model ----
(***************************************************************************)
(* License server (src/server.js): the persisted JSON document, the        *)
(* request handlers of the HTTP routes and the helpers they call.          *)
(*                                                                         *)
(* Every handler is one action: load the document, run the handler's      *)
(* checks in the order of the code, mutate, save, respond.                 *)
(***************************************************************************)
EXTENDS Integers, Sequences, FiniteSets, TLC

VARIABLES
    db,        \* the document of ./license-db.json
    today,     \* the day yyyymmddToday() returns (the wall clock's date)
    minted,    \* how many ids crypto.randomUUID() has produced so far
    ADMIN_KEY, \* process.env.ADMIN_KEY; "" when the server was started without it
    steps,     \* how many requests have changed the document since the first state
    last,      \* the last request and its response
    disk,      \* what the file system does to DB_FILE: "ok", "unreadable" or "unwritable"
    txn,       \* the requests a variant with asynchronous handlers has in flight
    submitted  \* history: the attempts the MarkPerfect calls answered with 200 carried

vars == <<db, today, minted, ADMIN_KEY, steps, last, disk, txn, submitted>>

(***************************************************************************)
(* Bounds of the model.                                                    *)
(***************************************************************************)
MaxSteps == 3      \* changes of the document a run may see

(***************************************************************************)
(* Values of a request body.  Ids are strings; "" stands for a field that  *)
(* is absent or empty (both are falsy to the handlers).                    *)
(***************************************************************************)
DeviceIds == {"d1", "d2"}

\* !x
Falsy(x) == x = ""

\* Dates are fixed-width yyyymmdd digit strings; on those the string order
\* `<` of the code is the order of the numbers they spell.
Day0 == 20261104
Days == {Day0, Day0 + 1}
Expiries == {Day0}

\* The key the deployment configures; a request carries it, another value,
\* or no x-admin-key header at all ("")
AdminKey == "admin-key"
KeyHeaders == {AdminKey, "wrong", ""}

SuppliedUserIds == {"u1"}
\* The ids crypto.randomUUID() produces, in the order it produces them
MintTable == <<"m1">>
MintedIds(n) == {MintTable[i] : i \in 1..n}
UserNames == {"A"}
TestIds == {"t1"}
AttemptIds == {"", "a1"}

(***************************************************************************)
(* Utils                                                                   *)
(***************************************************************************)
\* sha256Hex: modelled as a collision-free digest of its input string.  The
\* input `${deviceId}|${expiry}|${SECRET}` is determined by deviceId and
\* expiry (8 digits, so the separators are unambiguous).
sha256Hex(deviceId, expiry) == [of |-> <<deviceId, expiry>>, len |-> 64]

\* .slice(0, 24)
Slice24(h) == [of |-> h.of, len |-> 24]

\* A signature that does not cover the device
computeLicenseHashNoDevice(deviceId, expiry) == Slice24(sha256Hex("", expiry))

computeLicenseHash(deviceId, expiry) == Slice24(sha256Hex(deviceId, expiry))

\* A license string: its format, the expiry and the hash it spells, and
\* whether it carries surrounding whitespace.
Lic(fmt, expiry, hash, pad) == [fmt |-> fmt, expiry |-> expiry, hash |-> hash, pad |-> pad]

\* A license string that carries a fixed tag in place of the signature
N1NoHash(expiry, hash) == Lic("N1", expiry, [of |-> <<"", expiry>>, len |-> 24], FALSE)

\* `N1.${expiry}.${hash}`
N1(expiry, hash) == Lic("N1", expiry, hash, FALSE)

NoHash == [of |-> <<"", 0>>, len |-> 0]
NoParse == [ok |-> FALSE, expiry |-> 0, hash |-> NoHash]

parseLicense(license) ==
    \* trim() drops the padding; then the old format needs a 64-digit
    \* hash and the new one a 24-digit hash
    IF license.fmt = "old" /\ license.hash.len = 64
    THEN [ok |-> TRUE, expiry |-> license.expiry, hash |-> license.hash]
    ELSE IF license.fmt = "N1" /\ license.hash.len = 24
    THEN [ok |-> TRUE, expiry |-> license.expiry, hash |-> license.hash]
    ELSE NoParse

yyyymmddToday == today

\* An expiry check that also rejects the last day of validity
IsExpiredInclusive(p, now) == p.expiry <= now

\* p.expiry < today
IsExpired(p, now) == p.expiry < now

(***************************************************************************)
(* The document.  License records live under their license string; the     *)
(* bookkeeping lives under the "__" keys.                                  *)
(***************************************************************************)
\* Of the time stamps the handlers write, the model keeps updatedAt of a
\* progress record, which GetProgress reports.  createdAt, firstUsedAt,
\* lastSeenAt, the `at` and `reason` of a revocation mark and examDate are
\* not part of the model: no handler reads them back.
EmptyFn == [x \in {} |-> 0]

\* loadDB() when DB_FILE does not exist
EmptyDB ==
    [lic |-> EmptyFn,             \* db[license]
     revokedDevices |-> {},       \* keys of db.__revokedDevices
     revokedUsers |-> {},         \* keys of db.__revokedUsers
     users |-> EmptyFn,           \* db.__users
     userDevices |-> EmptyFn,     \* db.__userDevices[userId].devices
     progress |-> EmptyFn]        \* db.__progress

Put(f, k, v) == [x \in DOMAIN f \cup {k} |-> IF x = k THEN v ELSE f[x]]

(***************************************************************************)
(* User helpers                                                            *)
(***************************************************************************)
\* The ids that match /^[a-zA-Z0-9_-]{1,64}$/ among the ids requests carry
\* An id that does not match: it has a blank inside
MalformedUserIds == {"bad id"}

WellFormedUserIds == SuppliedUserIds \cup MintedIds(Len(MintTable))

normalizeUserId(userId) == IF userId \in WellFormedUserIds THEN userId ELSE ""

\* userName = "" stands for an absent or empty argument
ensureUserRecord(d, userId, userName) ==
    LET rec == IF userId \in DOMAIN d.users
               THEN d.users[userId]
               ELSE [userName |-> userName]
        rec2 == IF userName # "" THEN [rec EXCEPT !.userName = userName] ELSE rec
        devs == IF userId \in DOMAIN d.userDevices
                THEN d.userDevices[userId]
                ELSE {}
    IN [d EXCEPT !.users = Put(d.users, userId, rec2),
                 !.userDevices = Put(d.userDevices, userId, devs)]

\* A tracking step that makes the user record and forgets the device
attachDeviceToUserNoTrack(d, userId, deviceId) == ensureUserRecord(d, userId, "")

attachDeviceToUser(d, userId, deviceId) ==
    LET e == ensureUserRecord(d, userId, "")
    IN [e EXCEPT !.userDevices[userId] = @ \cup {deviceId}]

\* A lookup in the wrong revocation set
isUserRevokedWrongSet(d, userId) == userId \in d.revokedDevices

isUserRevoked(d, userId) == userId \in d.revokedUsers

\* A lookup in the wrong revocation set
isDeviceRevokedWrongSet(d, deviceId) == deviceId \in d.revokedUsers

isDeviceRevoked(d, deviceId) == deviceId \in d.revokedDevices

(***************************************************************************)
(* Progress helpers                                                        *)
(***************************************************************************)
Max(a, b) == IF a > b THEN a ELSE b
Min(a, b) == IF a < b THEN a ELSE b

\* A clamp that forgets the upper end
clampIntNoMax(n, min, max) == Max(min, n)

clampInt(n, min, max) == Max(min, Min(max, n))

\* A percentage computed by integer division
calcPercentByDivision(c) == IF c <= 0 THEN 0 ELSE IF c >= 3 THEN 100 ELSE (c * 100) \div 3

calcPercentFromPerfectCount(c) ==
    IF c <= 0 THEN 0
    ELSE IF c = 1 THEN 33
    ELSE IF c = 2 THEN 67
    ELSE 100

(***************************************************************************)
(* Requests and responses                                                  *)
(***************************************************************************)
NoLicense == Lic("", 0, NoHash, FALSE)

Req0 ==
    [op |-> "", key |-> "", deviceId |-> "", license |-> NoLicense,
     userId |-> "", userName |-> "", expiry |-> 0,
     testId |-> "", testIds |-> <<>>, attemptId |-> ""]

Res0 ==
    [status |-> 0, msg |-> "", userId |-> "", userName |-> "", expiry |-> 0,
     license |-> NoLicense, firstBind |-> FALSE, revoked |-> FALSE,
     perfectCount |-> 0, percent |-> 0, completed |-> FALSE, deduped |-> FALSE,
     data |-> EmptyFn]

\* res.status(code).send(msg): nothing is saved, nothing is minted
Send(d, code, msg) ==
    [db |-> d, res |-> [Res0 EXCEPT !.status = code, !.msg = msg], mint |-> 0]

\* res.json({ ok: true, ... }) after saveDB(d)
Json(d, body, mint) == [db |-> d, res |-> [body EXCEPT !.status = 200, !.msg = "ok"], mint |-> mint]

\* crypto.randomUUID().replace(/-/g, "").slice(0, 20): an id no request and
\* no earlier call has produced
randomUUID(n) == IF n < Len(MintTable) THEN MintTable[n + 1] ELSE ""

(***************************************************************************)
(* POST /api/verify                                                        *)
(***************************************************************************)
\* A first use that answers without storing the license record
RegisterLicenseUnsaved(d, n, deviceId, license, p) ==
    LET userId == randomUUID(n)
        d2 == ensureUserRecord(d, userId, "User")
        d3 == attachDeviceToUser(d2, userId, deviceId)
    IN Json(d3, [Res0 EXCEPT !.userId = userId, !.expiry = p.expiry,
                             !.userName = "User", !.firstBind = TRUE], 1)

\* Legacy support: a license with no record is registered on its first use
RegisterLicense(d, n, deviceId, license, p) ==
    LET userId == randomUUID(n)
        d1 == [d EXCEPT !.lic = Put(d.lic, license,
                   [deviceId |-> deviceId, expiry |-> p.expiry,
                    userId |-> userId, userName |-> "User"])]
        d2 == ensureUserRecord(d1, userId, "User")
        d3 == attachDeviceToUser(d2, userId, deviceId)
    IN Json(d3, [Res0 EXCEPT !.userId = userId, !.expiry = p.expiry,
                             !.userName = "User", !.firstBind = TRUE], 1)

VerifyLicense(d, now, n, deviceId, license) ==
    IF Falsy(deviceId) \/ license = NoLicense
    THEN Send(d, 400, "Missing deviceId/license")
    ELSE LET p == parseLicense(license) IN
    IF ~p.ok THEN Send(d, 400, "Bad license format")
    ELSE IF IsExpired(p, now) THEN Send(d, 403, "Expired")
    ELSE IF computeLicenseHash(deviceId, p.expiry) # p.hash THEN Send(d, 403, "Invalid")
    ELSE IF isDeviceRevoked(d, deviceId) THEN Send(d, 403, "Device revoked")
    ELSE IF license \notin DOMAIN d.lic
    THEN RegisterLicense(d, n, deviceId, license, p)
    ELSE LET rec == d.lic[license]
             userId == rec.userId
         IN
         IF userId # "" /\ isUserRevoked(d, userId) THEN Send(d, 403, "User revoked")
         ELSE IF rec.deviceId # deviceId
         THEN Send(d, 403, "License already bound to another device")
         ELSE Json(IF userId # "" THEN attachDeviceToUser(d, userId, deviceId) ELSE d,
                   [Res0 EXCEPT !.userId = userId, !.expiry = p.expiry,
                                !.userName = IF rec.userName # "" THEN rec.userName ELSE "User",
                                !.firstBind = FALSE], 0)

(***************************************************************************)
(* POST /api/admin/generate                                                *)
(***************************************************************************)
\* A server that does not look whether ADMIN_KEY is set
NotConfiguredIgnored == FALSE

\* The two checks every admin route starts with
NotConfigured == Falsy(ADMIN_KEY)

Unauthorized(key) == key # ADMIN_KEY

Refuse(d, key) ==
    IF NotConfigured THEN Send(d, 500, "Missing ADMIN_KEY on server")
    ELSE Send(d, 401, "Unauthorized")

KeyRejected(key) == NotConfigured \/ Unauthorized(key)

\* /^\d{8}$/ on the dates requests carry (none has a leading zero)
EightDigits(expiry) == expiry >= 10000000 /\ expiry <= 99999999

AdminGenerate(d, n, key, deviceId, expiry, userName, userId) ==
    IF KeyRejected(key) THEN Refuse(d, key)
    ELSE IF Falsy(deviceId) \/ expiry = 0 \/ userName = ""
    THEN Send(d, 400, "Missing deviceId/expiry/userName")
    ELSE IF ~EightDigits(expiry) THEN Send(d, 400, "Bad expiry format (yyyymmdd)")
    ELSE LET given == normalizeUserId(userId)
             uid == IF given = "" THEN randomUUID(n) ELSE given
             license == N1(expiry, computeLicenseHash(deviceId, expiry))
             d1 == [d EXCEPT !.lic = Put(d.lic, license,
                        [deviceId |-> deviceId, expiry |-> expiry,
                         userId |-> uid, userName |-> userName])]
             d2 == ensureUserRecord(d1, uid, userName)
             d3 == attachDeviceToUser(d2, uid, deviceId)
         IN Json(d3, [Res0 EXCEPT !.license = license, !.expiry = expiry,
                                  !.userId = uid, !.userName = userName],
                 IF given = "" THEN 1 ELSE 0)

(***************************************************************************)
(* POST /api/admin/revoke-device, unrevoke-device, revoke-user,            *)
(* unrevoke-user                                                           *)
(***************************************************************************)
\* A revoke-device that also deletes the licenses bound to the device
RevokeDeviceCascade(d, key, deviceId) ==
    IF KeyRejected(key) THEN Refuse(d, key)
    ELSE IF Falsy(deviceId) THEN Send(d, 400, "Missing deviceId")
    ELSE LET kept == {k \in DOMAIN d.lic : d.lic[k].deviceId # deviceId}
         IN Json([d EXCEPT !.revokedDevices = @ \cup {deviceId},
                           !.lic = [k \in kept |-> d.lic[k]]],
                 [Res0 EXCEPT !.revoked = TRUE], 0)

RevokeDevice(d, key, deviceId) ==
    IF KeyRejected(key) THEN Refuse(d, key)
    ELSE IF Falsy(deviceId) THEN Send(d, 400, "Missing deviceId")
    ELSE Json([d EXCEPT !.revokedDevices = @ \cup {deviceId}],
              [Res0 EXCEPT !.revoked = TRUE], 0)

UnrevokeDevice(d, key, deviceId) ==
    IF KeyRejected(key) THEN Refuse(d, key)
    ELSE IF Falsy(deviceId) THEN Send(d, 400, "Missing deviceId")
    ELSE Json([d EXCEPT !.revokedDevices = @ \ {deviceId}],
              [Res0 EXCEPT !.revoked = FALSE], 0)

\* A revoke-user that makes the user record before it has validated the id
RevokeUserEager(d, key, userId) ==
    IF KeyRejected(key) THEN Refuse(d, key)
    ELSE LET uid == normalizeUserId(userId)
             d1 == ensureUserRecord(d, userId, "")
         IN IF uid = "" THEN Send(d1, 400, "Missing/Bad userId")
            ELSE Json([d1 EXCEPT !.revokedUsers = @ \cup {uid}],
                      [Res0 EXCEPT !.userId = uid, !.revoked = TRUE], 0)

RevokeUser(d, key, userId) ==
    IF KeyRejected(key) THEN Refuse(d, key)
    ELSE LET uid == normalizeUserId(userId) IN
    IF uid = "" THEN Send(d, 400, "Missing/Bad userId")
    ELSE LET d1 == ensureUserRecord(d, uid, "")
         IN Json([d1 EXCEPT !.revokedUsers = @ \cup {uid}],
                 [Res0 EXCEPT !.userId = uid, !.revoked = TRUE], 0)

UnrevokeUser(d, key, userId) ==
    IF KeyRejected(key) THEN Refuse(d, key)
    ELSE LET uid == normalizeUserId(userId) IN
    IF uid = "" THEN Send(d, 400, "Missing/Bad userId")
    ELSE Json([d EXCEPT !.revokedUsers = @ \ {uid}],
              [Res0 EXCEPT !.userId = uid, !.revoked = FALSE], 0)

(***************************************************************************)
(* POST /api/admin/user-info: reads, never saves                           *)
(***************************************************************************)
\* db.__users[uid] || null
Null == [null |-> TRUE]

UserInfo(d, key, userId) ==
    IF KeyRejected(key) THEN Refuse(d, key)
    ELSE LET uid == normalizeUserId(userId) IN
    IF uid = "" THEN Send(d, 400, "Missing/Bad userId")
    ELSE LET user == IF uid \in DOMAIN d.users THEN d.users[uid] ELSE Null
             devices == IF uid \in DOMAIN d.userDevices THEN d.userDevices[uid] ELSE {}
             licenses == {k \in DOMAIN d.lic : d.lic[k].userId = uid}
         IN Json(d, [Res0 EXCEPT
                        !.userId = uid,
                        !.revoked = isUserRevoked(d, uid),
                        !.data = [user |-> user,
                                  devices |-> {[deviceId |-> x,
                                                revoked |-> isDeviceRevoked(d, x)] :
                                               x \in devices},
                                  licenses |-> {[license |-> k,
                                                 deviceId |-> d.lic[k].deviceId,
                                                 expiry |-> d.lic[k].expiry] :
                                                k \in licenses}]], 0)

(***************************************************************************)
(* POST /api/progress/get                                                  *)
(***************************************************************************)
\* String(x).trim() on the ids requests carry: " " is the one with blanks
Trim(x) == IF x = " " THEN "" ELSE x

\* updatedAt: "" of a record that was never stamped
NoStamp == 0

\* new Date().toISOString(), read from the wall clock that yyyymmddToday()
\* reads; the model keeps its date
toISOString(now) == now

\* A first record that already counts one
NoProgressCounted == [perfectCount |-> 1, updatedAt |-> NoStamp, recentAttempts |-> <<>>]

NoProgress == [perfectCount |-> 0, updatedAt |-> NoStamp, recentAttempts |-> <<>>]

\* db.__progress[userId] = db.__progress[userId] || {}
\* A bucket that starts afresh each time it is asked for
EnsureBucketFresh(d, userId) ==
    [d EXCEPT !.progress = Put(d.progress, userId, EmptyFn)]

EnsureBucket(d, userId) ==
    IF userId \in DOMAIN d.progress THEN d
    ELSE [d EXCEPT !.progress = Put(d.progress, userId, EmptyFn)]

\* "Verify license" and "Check revoked" of the two progress routes (the same
\* lines in both): the error to send, or the owner of the license
Denied(code, msg) == [ok |-> FALSE, code |-> code, msg |-> msg, userId |-> ""]

\* A gate that files the progress under the device, not under the owner
AuthorizeProgressByDevice(d, now, deviceId, license) ==
    LET p == parseLicense(license) IN
    IF ~p.ok THEN Denied(400, "Bad license format")
    ELSE IF IsExpired(p, now) THEN Denied(403, "Expired")
    ELSE IF computeLicenseHash(deviceId, p.expiry) # p.hash THEN Denied(403, "Invalid")
    ELSE IF license \notin DOMAIN d.lic THEN Denied(403, "License not found")
    ELSE LET rec == d.lic[license] IN
         IF rec.deviceId # deviceId THEN Denied(403, "License bound to another device")
         ELSE IF rec.userId = "" THEN Denied(500, "License missing userId")
         ELSE IF isDeviceRevoked(d, deviceId) THEN Denied(403, "Device revoked")
         ELSE IF isUserRevoked(d, rec.userId) THEN Denied(403, "User revoked")
         ELSE [ok |-> TRUE, code |-> 200, msg |-> "ok", userId |-> deviceId]

\* A gate that forgets the owner's revocation
AuthorizeProgressNoUserCheck(d, now, deviceId, license) ==
    LET p == parseLicense(license) IN
    IF ~p.ok THEN Denied(400, "Bad license format")
    ELSE IF IsExpired(p, now) THEN Denied(403, "Expired")
    ELSE IF computeLicenseHash(deviceId, p.expiry) # p.hash THEN Denied(403, "Invalid")
    ELSE IF license \notin DOMAIN d.lic THEN Denied(403, "License not found")
    ELSE LET rec == d.lic[license] IN
         IF rec.deviceId # deviceId THEN Denied(403, "License bound to another device")
         ELSE IF rec.userId = "" THEN Denied(500, "License missing userId")
         ELSE IF isDeviceRevoked(d, deviceId) THEN Denied(403, "Device revoked")
         ELSE [ok |-> TRUE, code |-> 200, msg |-> "ok", userId |-> rec.userId]

AuthorizeProgress(d, now, deviceId, license) ==
    LET p == parseLicense(license) IN
    IF ~p.ok THEN Denied(400, "Bad license format")
    ELSE IF IsExpired(p, now) THEN Denied(403, "Expired")
    ELSE IF computeLicenseHash(deviceId, p.expiry) # p.hash THEN Denied(403, "Invalid")
    ELSE IF license \notin DOMAIN d.lic THEN Denied(403, "License not found")
    ELSE LET rec == d.lic[license] IN
         IF rec.deviceId # deviceId THEN Denied(403, "License bound to another device")
         ELSE IF rec.userId = "" THEN Denied(500, "License missing userId")
         ELSE IF isDeviceRevoked(d, deviceId) THEN Denied(403, "Device revoked")
         ELSE IF isUserRevoked(d, rec.userId) THEN Denied(403, "User revoked")
         ELSE [ok |-> TRUE, code |-> 200, msg |-> "ok", userId |-> rec.userId]

\* A view that takes every record for completed
ProgressViewDone(r) ==
    LET perfectCount == clampInt(r.perfectCount, 0, 3)
    IN [perfectCount |-> perfectCount,
        percent |-> calcPercentFromPerfectCount(perfectCount),
        completed |-> perfectCount >= 0,
        updatedAt |-> r.updatedAt]

ProgressView(r) ==
    LET perfectCount == clampInt(r.perfectCount, 0, 3)
    IN [perfectCount |-> perfectCount,
        percent |-> calcPercentFromPerfectCount(perfectCount),
        completed |-> perfectCount >= 3,
        updatedAt |-> r.updatedAt]

GetProgress(d, now, deviceId, license, testIds) ==
    IF Falsy(deviceId) \/ license = NoLicense
    THEN Send(d, 400, "Missing deviceId/license")
    ELSE LET a == AuthorizeProgress(d, now, deviceId, license) IN
    IF ~a.ok THEN Send(d, a.code, a.msg)
    ELSE LET userId == a.userId
             d1 == attachDeviceToUser(d, userId, deviceId)
             d2 == EnsureBucket(d1, userId)
             bucket == d2.progress[userId]
             tids == {Trim(testIds[i]) : i \in DOMAIN testIds} \ {""}
             out == [tid \in tids |->
                        ProgressView(IF tid \in DOMAIN bucket THEN bucket[tid]
                                     ELSE NoProgress)]
         IN Json(d2, [Res0 EXCEPT !.userId = userId, !.data = out], 0)

(***************************************************************************)
(* POST /api/progress/mark-perfect                                         *)
(***************************************************************************)
MaxRecent == 20

\* A buffer that drops the newest id when it overflows (pop for shift)
PushRecentPop(recent, aId) ==
    LET r == Append(recent, aId)
    IN IF Len(r) > MaxRecent THEN SubSeq(r, 1, MaxRecent) ELSE r

\* recentAttempts.push(aId); if (length > 20) recentAttempts.shift()
PushRecent(recent, aId) ==
    LET r == Append(recent, aId)
    IN IF Len(r) > MaxRecent THEN Tail(r) ELSE r

\* A lookup that compares with the newest id alone
IncludesNewest(recent, aId) == recent # <<>> /\ recent[Len(recent)] = aId

Includes(recent, aId) == \E i \in DOMAIN recent : recent[i] = aId

MarkPerfect(d, now, deviceId, license, testId, attemptId) ==
    IF Falsy(deviceId) \/ license = NoLicense \/ Falsy(testId)
    THEN Send(d, 400, "Missing deviceId/license/testId")
    ELSE LET a == AuthorizeProgress(d, now, deviceId, license)
             tid == Trim(testId)
         IN
    IF ~a.ok THEN Send(d, a.code, a.msg)
    ELSE IF tid = "" THEN Send(d, 400, "Bad testId")
    ELSE LET userId == a.userId
             d1 == attachDeviceToUser(d, userId, deviceId)
             d2 == EnsureBucket(d1, userId)
             bucket == d2.progress[userId]
             progressRec == IF tid \in DOMAIN bucket THEN bucket[tid] ELSE NoProgress
             aId == Trim(attemptId)
         IN
         IF aId # "" /\ Includes(progressRec.recentAttempts, aId)
         THEN LET v == ProgressView(progressRec)
                  d3 == [d2 EXCEPT !.progress[userId] = Put(bucket, tid, progressRec)]
              IN Json(d3, [Res0 EXCEPT !.deduped = TRUE,
                               !.perfectCount = v.perfectCount,
                               !.percent = v.percent,
                               !.completed = v.completed], 0)
         ELSE LET recent == IF aId # ""
                            THEN PushRecent(progressRec.recentAttempts, aId)
                            ELSE progressRec.recentAttempts
                  perfectCount == clampInt(progressRec.perfectCount + 1, 0, 3)
                  newRec == [perfectCount |-> perfectCount,
                             updatedAt |-> toISOString(now),
                             recentAttempts |-> recent]
                  d3 == [d2 EXCEPT !.progress[userId] = Put(bucket, tid, newRec)]
              IN Json(d3, [Res0 EXCEPT !.perfectCount = perfectCount,
                               !.percent = calcPercentFromPerfectCount(perfectCount),
                               !.completed = perfectCount >= 3], 0)

(***************************************************************************)
(* The requests clients and the admin send                                 *)
(***************************************************************************)
\* The license AdminGenerate issues for a device and an expiry
Issued(deviceId, expiry) == N1(expiry, Slice24(sha256Hex(deviceId, expiry)))

\* `${expiry}-${sha256Hex(...)}`: the license of the old format, all 64 digits
Legacy(deviceId, expiry) == Lic("old", expiry, sha256Hex(deviceId, expiry), FALSE)

\* The same signature under another expiry
Redated(license, expiry) == [license EXCEPT !.expiry = expiry]

Garbage == Lic("bad", 0, NoHash, FALSE)

\* A client presents a license issued for its device or for another one, a
\* license whose expiry it has edited, or something that is no license
ClientCalls ==
    {<<deviceId, Issued(k, e)>> : deviceId \in DeviceIds, k \in DeviceIds, e \in Expiries}
    \cup {<<"d1", Redated(Issued("d1", Day0), Day0 + 1)>>, <<"d1", Garbage>>}

TestIdLists == {<<"t1", " ">>}

UserIdInputs == SuppliedUserIds \cup MintedIds(minted) \cup {""}

Request(op) == [Req0 EXCEPT !.op = op]

(***************************************************************************)
(* Actions: one per route, the handler as a whole                          *)
(***************************************************************************)
\* server.js handles a request from its first line to its response before
\* it takes the next one, so it has no request in flight between two
\* actions; where nothing else is said DB_FILE can be read and written
NoTxn == <<>>

\* The history of attempts is kept where a property needs it
NoLog == [on |-> FALSE, of |-> EmptyFn]

Healthy == disk = "ok" /\ txn = NoTxn /\ submitted = NoLog

Init ==
    /\ Healthy
    /\ ADMIN_KEY = AdminKey
    /\ db = EmptyDB
    /\ today = Day0
    /\ minted = 0
    /\ steps = 0
    /\ last = [req |-> Req0, res |-> Res0]

\* The history after a request: a MarkPerfect answered with 200 adds its
\* attempt id to the ids of the owner and the test, or counts one more call
\* without an id (counted up to 3, the largest perfectCount)
Noted(r, req) ==
    IF ~submitted.on \/ req.op # "mark-perfect" \/ r.res.status # 200 THEN submitted
    ELSE LET key == <<db.lic[req.license].userId, Trim(req.testId)>>
             was == IF key \in DOMAIN submitted.of THEN submitted.of[key]
                    ELSE [ids |-> {}, anon |-> 0]
             aId == Trim(req.attemptId)
         IN [submitted EXCEPT !.of =
                Put(submitted.of, key,
                    IF aId = "" THEN [was EXCEPT !.anon = Min(3, @ + 1)]
                    ELSE [was EXCEPT !.ids = @ \cup {aId}])]

\* The response is sent and the document the handler saved is the document.
\* A rejected request is remembered by its route and response alone.
Store(doc, r, req) ==
    /\ db' = doc
    /\ steps' = IF doc = db THEN steps ELSE steps + 1
    /\ steps' <= MaxSteps
    /\ minted' = minted + r.mint
    /\ minted' <= Len(MintTable)
    /\ last' = [req |-> IF r.res.status = 200 THEN req ELSE Request(req.op),
                res |-> r.res]
    /\ submitted' = Noted(r, req)
    /\ UNCHANGED <<today, ADMIN_KEY, disk, txn>>

Commit(r, req) == Store(r.db, r, req)

Verify ==
    \E c \in ClientCalls :
        Commit(VerifyLicense(db, yyyymmddToday, minted, c[1], c[2]),
               [Request("verify") EXCEPT !.deviceId = c[1], !.license = c[2]])

\* An admin request carries the key; one of each route carries a wrong one
Generate ==
    \E key \in KeyHeaders, deviceId \in DeviceIds, expiry \in Expiries,
       userName \in UserNames, userId \in UserIdInputs :
        /\ key # AdminKey => (deviceId = "d1" /\ userId = "")
        /\ Commit(AdminGenerate(db, minted, key, deviceId, expiry, userName, userId),
               [Request("generate") EXCEPT !.key = key, !.deviceId = deviceId,
                    !.expiry = expiry, !.userName = userName, !.userId = userId])

DoRevokeDevice ==
    \E key \in KeyHeaders, deviceId \in DeviceIds :
        /\ key # AdminKey => deviceId = "d1"
        /\ Commit(RevokeDevice(db, key, deviceId),
               [Request("revoke-device") EXCEPT !.key = key, !.deviceId = deviceId])

DoUnrevokeDevice ==
    \E key \in KeyHeaders, deviceId \in DeviceIds :
        /\ key # AdminKey => deviceId = "d1"
        /\ Commit(UnrevokeDevice(db, key, deviceId),
               [Request("unrevoke-device") EXCEPT !.key = key, !.deviceId = deviceId])

DoRevokeUser ==
    \E key \in KeyHeaders, userId \in UserIdInputs :
        /\ key # AdminKey => userId = ""
        /\ Commit(RevokeUser(db, key, userId),
               [Request("revoke-user") EXCEPT !.key = key, !.userId = userId])

DoUnrevokeUser ==
    \E key \in KeyHeaders, userId \in UserIdInputs :
        /\ key # AdminKey => userId = ""
        /\ Commit(UnrevokeUser(db, key, userId),
               [Request("unrevoke-user") EXCEPT !.key = key, !.userId = userId])

ProgressGet ==
    \E c \in ClientCalls, testIds \in TestIdLists :
        Commit(GetProgress(db, yyyymmddToday, c[1], c[2], testIds),
               [Request("progress-get") EXCEPT !.deviceId = c[1],
                    !.license = c[2], !.testIds = testIds])

ProgressMarkPerfect ==
    \E c \in ClientCalls, testId \in TestIds \cup {" "}, attemptId \in AttemptIds :
        /\ testId = " " => (attemptId = "" /\ c[2] = Issued(c[1], Day0))
        /\ Commit(MarkPerfect(db, yyyymmddToday, c[1], c[2], testId, attemptId),
               [Request("mark-perfect") EXCEPT !.deviceId = c[1],
                    !.license = c[2], !.testId = testId, !.attemptId = attemptId])

\* Midnight passes
Tick ==
    /\ today + 1 \in Days
    /\ today' = today + 1
    /\ last' = [req |-> Request("tick"), res |-> Res0]
    /\ UNCHANGED <<db, minted, steps, ADMIN_KEY, disk, txn, submitted>>

Next ==
    \/ Verify
    \/ Generate
    \/ DoRevokeDevice
    \/ DoUnrevokeDevice
    \/ DoRevokeUser
    \/ DoUnrevokeUser
    \/ ProgressGet
    \/ ProgressMarkPerfect
    \/ Tick

Spec == Init /\ [][Next]_vars

\* The same server, watched from the moment the admin has issued a first
\* license (to user u1, for device d1)
InitIssued ==
    LET r == AdminGenerate(EmptyDB, 0, AdminKey, "d1", Day0, "A", "u1")
    IN /\ Healthy
       /\ ADMIN_KEY = AdminKey
       /\ db = r.db
       /\ today = Day0
       /\ minted = 0
       /\ steps = 0
       /\ last = [req |-> [Request("generate") EXCEPT !.key = AdminKey, !.deviceId = "d1",
                               !.expiry = Day0, !.userName = "A", !.userId = "u1"],
                   res |-> r.res]

SpecIssued == InitIssued /\ [][Next]_vars

(***************************************************************************)
(* The admin console at work, on a server started with or without          *)
(* ADMIN_KEY, while devices verify their licenses.                         *)
(***************************************************************************)
DoUserInfo ==
    \E key \in KeyHeaders, userId \in UserIdInputs :
        /\ key # AdminKey => userId = ""
        /\ Commit(UserInfo(db, key, userId),
               [Request("user-info") EXCEPT !.key = key, !.userId = userId])

InitAdmin ==
    /\ Healthy
    /\ ADMIN_KEY \in {AdminKey, ""}
    /\ db = EmptyDB
    /\ today = Day0
    /\ minted = 0
    /\ steps = 0
    /\ last = [req |-> Req0, res |-> Res0]

NextAdmin ==
    \/ Verify
    \/ Generate
    \/ DoRevokeDevice
    \/ DoUnrevokeDevice
    \/ DoRevokeUser
    \/ DoUnrevokeUser
    \/ DoUserInfo

SpecAdmin == InitAdmin /\ [][NextAdmin]_vars

(***************************************************************************)
(* The same server on a file system that at times fails to hand out the    *)
(* content of DB_FILE (a read error, or a content JSON.parse rejects).     *)
(***************************************************************************)
\* loadDB(): the catch branch answers a read or parse failure with an empty
\* document
loadDB == IF disk = "unreadable" THEN EmptyDB ELSE db

\* The routes of server.js call saveDB(db) on their way to a 200 answer and
\* nowhere else; user-info never calls it, and verify does not call it for a
\* license record without userId
saveDB(r, req) ==
    IF r.res.status # 200 THEN db
    ELSE IF req.op = "user-info" THEN db
    ELSE IF req.op = "verify" /\ r.res.userId = "" THEN db
    ELSE r.db

OnDisk(r, req) == Store(saveDB(r, req), r, req)

NextDisk ==
    \* DB_FILE can no longer be read or parsed
    \/ /\ disk = "ok"
       /\ disk' = "unreadable"
       /\ last' = [req |-> Request("read-fault"), res |-> Res0]
       /\ UNCHANGED <<db, today, minted, ADMIN_KEY, steps, txn, submitted>>
    \* DB_FILE can be read again
    \/ /\ disk = "unreadable"
       /\ disk' = "ok"
       /\ last' = [req |-> Request("read-repaired"), res |-> Res0]
       /\ UNCHANGED <<db, today, minted, ADMIN_KEY, steps, txn, submitted>>
    \/ \E c \in ClientCalls \cup {<<"d1", Legacy("d1", Day0)>>,
                                 <<"d1", [Issued("d1", Day0) EXCEPT !.pad = TRUE]>>} :
           OnDisk(VerifyLicense(loadDB, yyyymmddToday, minted, c[1], c[2]),
                  [Request("verify") EXCEPT !.deviceId = c[1], !.license = c[2]])
    \/ \E deviceId \in DeviceIds, expiry \in Expiries, userName \in UserNames,
          userId \in UserIdInputs :
           OnDisk(AdminGenerate(loadDB, minted, AdminKey, deviceId, expiry, userName, userId),
                  [Request("generate") EXCEPT !.key = AdminKey, !.deviceId = deviceId,
                       !.expiry = expiry, !.userName = userName, !.userId = userId])
    \/ \E deviceId \in DeviceIds :
           OnDisk(RevokeDevice(loadDB, AdminKey, deviceId),
                  [Request("revoke-device") EXCEPT !.key = AdminKey, !.deviceId = deviceId])
    \/ \E deviceId \in DeviceIds :
           OnDisk(UnrevokeDevice(loadDB, AdminKey, deviceId),
                  [Request("unrevoke-device") EXCEPT !.key = AdminKey, !.deviceId = deviceId])
    \/ \E userId \in UserIdInputs :
           OnDisk(RevokeUser(loadDB, AdminKey, userId),
                  [Request("revoke-user") EXCEPT !.key = AdminKey, !.userId = userId])
    \/ \E userId \in UserIdInputs :
           OnDisk(UnrevokeUser(loadDB, AdminKey, userId),
                  [Request("unrevoke-user") EXCEPT !.key = AdminKey, !.userId = userId])
    \/ \E userId \in UserIdInputs :
           OnDisk(UserInfo(loadDB, AdminKey, userId),
                  [Request("user-info") EXCEPT !.key = AdminKey, !.userId = userId])
    \/ \E c \in ClientCalls, testIds \in TestIdLists :
           OnDisk(GetProgress(loadDB, yyyymmddToday, c[1], c[2], testIds),
                  [Request("progress-get") EXCEPT !.deviceId = c[1],
                       !.license = c[2], !.testIds = testIds])
    \/ \E c \in ClientCalls, testId \in TestIds, attemptId \in AttemptIds :
           OnDisk(MarkPerfect(loadDB, yyyymmddToday, c[1], c[2], testId, attemptId),
                  [Request("mark-perfect") EXCEPT !.deviceId = c[1],
                       !.license = c[2], !.testId = testId, !.attemptId = attemptId])

\* The admin has issued u1 a license for d1 and the file can be read
SpecDisk == InitIssued /\ [][NextDisk]_vars

(***************************************************************************)
(* The same server while students practise: user u1 holds a license for    *)
(* each of two devices, valid until tomorrow, and the devices report       *)
(* perfect attempts and read the progress back.                            *)
(***************************************************************************)
\* The attempt ids of one student, in the order the client makes them up
AttemptTable ==
    <<"a1", "a2", "a3", "a4", "a5", "a6", "a7", "a8", "a9", "a10", "a11",
      "a12", "a13", "a14", "a15", "a16", "a17", "a18", "a19", "a20", "a21">>

\* A request carries no attempt id, one of the first ids, or one of the
\* last ids of the table
RetryIds == {"", "a1", "a2", "a3", "a20", "a21"}

StudyExpiry == Day0 + 1

\* The document after the admin has issued u1 a license for d1 and for d2
TwoLicenses ==
    LET r1 == AdminGenerate(EmptyDB, 0, AdminKey, "d1", StudyExpiry, "A", "u1")
    IN AdminGenerate(r1.db, 0, AdminKey, "d2", StudyExpiry, "A", "u1")

\* The document after device d1 has then reported the first n attempts of
\* the table for test t1
\* (comparing the license records first makes TLC evaluate the document of
\* the n - 1 attempts before the handler is applied to it)
Practised[n \in 0..MaxRecent] ==
    IF n = 0 THEN TwoLicenses.db
    ELSE LET before == Practised[n - 1]
         IN IF before.lic = TwoLicenses.db.lic
            THEN MarkPerfect(before, Day0, "d1", Issued("d1", StudyExpiry),
                             "t1", AttemptTable[n]).db
            ELSE before

\* A device presents any license the document holds
StudyCalls == DeviceIds \X DOMAIN db.lic

InitStudy ==
    /\ disk = "ok"
    /\ txn = NoTxn
    /\ ADMIN_KEY = AdminKey
    /\ db \in {TwoLicenses.db, Practised[MaxRecent]}
    \* what the student has submitted to reach the document
    /\ submitted = [on |-> TRUE,
                    of |-> IF db = TwoLicenses.db THEN EmptyFn
                           ELSE <<"u1", "t1">> :>
                                    [ids |-> {AttemptTable[i] : i \in 1..MaxRecent},
                                     anon |-> 0]]
    /\ today = Day0
    /\ minted = 0
    /\ steps = 0
    /\ last = [req |-> [Request("generate") EXCEPT !.key = AdminKey, !.deviceId = "d2",
                            !.expiry = StudyExpiry, !.userName = "A", !.userId = "u1"],
                res |-> TwoLicenses.res]

StudyMark ==
    \E c \in StudyCalls, testId \in TestIds, attemptId \in RetryIds :
        Commit(MarkPerfect(db, yyyymmddToday, c[1], c[2], testId, attemptId),
               [Request("mark-perfect") EXCEPT !.deviceId = c[1],
                    !.license = c[2], !.testId = testId, !.attemptId = attemptId])

\* The tests a device asks about: one nobody practises, a blank, and t1
StudyTestIdLists == {<<"t2", " ", "t1">>}

StudyGet ==
    \E c \in StudyCalls, testIds \in StudyTestIdLists :
        Commit(GetProgress(db, yyyymmddToday, c[1], c[2], testIds),
               [Request("progress-get") EXCEPT !.deviceId = c[1],
                    !.license = c[2], !.testIds = testIds])

NextStudy ==
    \/ StudyMark
    \/ StudyGet
    \/ Tick

SpecStudy == InitStudy /\ [][NextStudy]_vars

(***************************************************************************)
(* The variant with the atomic write (src/unnamed/part_000).  Its document *)
(* is the document of server.js; the model keeps lastSeenAt of             *)
(* db.__userDevices[userId] as well, under its own key.  Its routes load   *)
(* the document, and what they hand to saveDB becomes the file unless the  *)
(* write fails.                                                            *)
(***************************************************************************)
EmptyDB_p0 ==
    [lic |-> EmptyFn, revokedDevices |-> {}, revokedUsers |-> {},
     users |-> EmptyFn, userDevices |-> EmptyFn, progress |-> EmptyFn,
     lastSeenAt |-> EmptyFn]   \* db.__userDevices[userId].lastSeenAt

\* saveDB(db): writes a temporary file and renames it; answers false, and
\* leaves DB_FILE as it was, when the write or the rename throws
saveDB_p0(doc) ==
    IF disk = "unwritable" THEN [ok |-> FALSE, file |-> db]
    ELSE [ok |-> TRUE, file |-> doc]

\* createHmac("sha256", LICENSE_SECRET).update(`${deviceId}|${expiry}`)
\* .digest("hex").slice(0, 24)
computeLicenseHash_p0(deviceId, expiry) ==
    Slice24([of |-> <<deviceId, expiry>>, len |-> 64])

\* Only N1.<8 digits>.<24 hex digits> parses
parseLicense_p0(license) ==
    IF license.fmt = "N1" /\ license.hash.len = 24 /\ ~license.pad
    THEN [ok |-> TRUE, expiry |-> license.expiry, hash |-> license.hash]
    ELSE NoParse

\* adminOnly: the express middleware in front of the admin routes
adminOnly(key) == ~(Falsy(key) \/ key # ADMIN_KEY)

ensureUserRecord_p0(d, userId, userName) ==
    LET e == ensureUserRecord(d, userId, userName)
    IN IF userId \in DOMAIN d.lastSeenAt THEN e
       ELSE [e EXCEPT !.lastSeenAt = Put(@, userId, NoStamp)]

attachDeviceToUser_p0(d, now, userId, deviceId) ==
    LET e == ensureUserRecord_p0(d, userId, "")
    IN [e EXCEPT !.userDevices[userId] = @ \cup {deviceId},
                 !.lastSeenAt[userId] = toISOString(now)]

\* authFromDeviceLicense: the error to send and the document untouched, or
\* the owner and the document it has passed to saveDB
authFromDeviceLicense(d, now, deviceId, license) ==
    LET p == parseLicense_p0(license)
        No(code, msg) == [ok |-> FALSE, code |-> code, msg |-> msg, userId |-> "", db |-> d]
    IN
    IF ~p.ok THEN No(400, "Bad license format")
    ELSE IF p.expiry < now THEN No(403, "Expired")
    ELSE IF computeLicenseHash_p0(deviceId, p.expiry) # p.hash THEN No(403, "Invalid")
    ELSE IF license \notin DOMAIN d.lic THEN No(403, "License not found")
    ELSE LET rec == d.lic[license] IN
         IF rec.deviceId # deviceId THEN No(403, "License bound to another device")
         ELSE IF rec.userId = "" THEN No(500, "License missing userId")
         ELSE IF isDeviceRevoked(d, deviceId) THEN No(403, "Device revoked")
         ELSE IF isUserRevoked(d, rec.userId) THEN No(403, "User revoked")
         ELSE [ok |-> TRUE, code |-> 200, msg |-> "ok", userId |-> rec.userId,
               db |-> attachDeviceToUser_p0(d, now, rec.userId, deviceId)]

\* Every handler below answers with the document it last passed to saveDB
\* (the document it loaded, if it passed none), and never looks at what
\* saveDB returned
AdminGenerate_p0(d, now, n, key, deviceId, expiry, userName, userId) ==
    IF ~adminOnly(key) THEN Send(d, 401, "Unauthorized")
    ELSE IF Falsy(deviceId) \/ expiry = 0 \/ userName = ""
    THEN Send(d, 400, "Missing deviceId/expiry/userName")
    ELSE IF ~EightDigits(expiry) THEN Send(d, 400, "Bad expiry format (yyyymmdd)")
    ELSE LET given == normalizeUserId(userId)
             uid == IF given = "" THEN randomUUID(n) ELSE given
             d1 == ensureUserRecord_p0(d, uid, userName)
             d2 == attachDeviceToUser_p0(d1, now, uid, deviceId)
             license == N1(expiry, computeLicenseHash_p0(deviceId, expiry))
             d3 == [d2 EXCEPT !.lic = Put(d2.lic, license,
                        [deviceId |-> deviceId, expiry |-> expiry,
                         userId |-> uid, userName |-> userName])]
         IN Json(d3, [Res0 EXCEPT !.license = license, !.expiry = expiry,
                                  !.userId = uid, !.userName = userName],
                 IF given = "" THEN 1 ELSE 0)

RevokeDevice_p0(d, key, deviceId) ==
    IF ~adminOnly(key) THEN Send(d, 401, "Unauthorized")
    ELSE IF Falsy(deviceId) THEN Send(d, 400, "Missing deviceId")
    ELSE Json([d EXCEPT !.revokedDevices = @ \cup {deviceId}],
              [Res0 EXCEPT !.revoked = TRUE], 0)

UnrevokeDevice_p0(d, key, deviceId) ==
    IF ~adminOnly(key) THEN Send(d, 401, "Unauthorized")
    ELSE IF Falsy(deviceId) THEN Send(d, 400, "Missing deviceId")
    ELSE Json([d EXCEPT !.revokedDevices = @ \ {deviceId}],
              [Res0 EXCEPT !.revoked = FALSE], 0)

RevokeUser_p0(d, key, userId) ==
    IF ~adminOnly(key) THEN Send(d, 401, "Unauthorized")
    ELSE LET uid == normalizeUserId(userId) IN
    IF uid = "" THEN Send(d, 400, "Missing/Bad userId")
    ELSE LET d1 == ensureUserRecord_p0(d, uid, "")
         IN Json([d1 EXCEPT !.revokedUsers = @ \cup {uid}],
                 [Res0 EXCEPT !.userId = uid, !.revoked = TRUE], 0)

UnrevokeUser_p0(d, key, userId) ==
    IF ~adminOnly(key) THEN Send(d, 401, "Unauthorized")
    ELSE LET uid == normalizeUserId(userId) IN
    IF uid = "" THEN Send(d, 400, "Missing/Bad userId")
    ELSE Json([d EXCEPT !.revokedUsers = @ \ {uid}],
              [Res0 EXCEPT !.userId = uid, !.revoked = FALSE], 0)

MarkPerfect_p0(d, now, deviceId, license, testId, attemptId) ==
    IF Falsy(deviceId) \/ license = NoLicense \/ Falsy(testId)
    THEN Send(d, 400, "Missing deviceId/license/testId")
    ELSE LET auth == authFromDeviceLicense(d, now, deviceId, license)
             tid == Trim(testId)
         IN
    IF ~auth.ok THEN Send(d, auth.code, auth.msg)
    ELSE IF tid = "" THEN Send(auth.db, 400, "Bad testId")
    ELSE LET userId == auth.userId
             d2 == EnsureBucket(auth.db, userId)
             bucket == d2.progress[userId]
             rec == IF tid \in DOMAIN bucket THEN bucket[tid] ELSE NoProgress
             aId == Trim(attemptId)
         IN
         IF aId # "" /\ Includes(rec.recentAttempts, aId)
         THEN LET perfectCount == clampInt(rec.perfectCount, 0, 3)
                  d3 == [d2 EXCEPT !.progress[userId] = Put(bucket, tid, rec)]
              IN Json(d3, [Res0 EXCEPT !.deduped = TRUE,
                               !.perfectCount = perfectCount,
                               !.percent = calcPercentFromPerfectCount(perfectCount),
                               !.completed = perfectCount >= 3], 0)
         ELSE LET recent == IF aId # ""
                            THEN PushRecent(rec.recentAttempts, aId)
                            ELSE rec.recentAttempts
                  perfectCount == clampInt(rec.perfectCount + 1, 0, 3)
                  newRec == [perfectCount |-> perfectCount,
                             updatedAt |-> toISOString(now),
                             recentAttempts |-> recent]
                  d3 == [d2 EXCEPT !.progress[userId] = Put(bucket, tid, newRec)]
              IN Json(d3, [Res0 EXCEPT !.perfectCount = perfectCount,
                               !.percent = calcPercentFromPerfectCount(perfectCount),
                               !.completed = perfectCount >= 3], 0)

\* GET /api/admin/db-status: registered without adminOnly; it answers the
\* working directory and the path, size and date of DB_FILE
DbStatus_p0(d, key) ==
    Json(d, [Res0 EXCEPT !.data = [workingDir |-> "cwd", dbFile |-> "db.json"]], 0)

\* POST /api/admin/backup-manual: a copy of the document in a file of its own
BackupManual_p0(d, key) ==
    IF ~adminOnly(key) THEN Send(d, 401, "Unauthorized")
    ELSE IF disk = "unwritable" THEN Send(d, 500, "EACCES")
    ELSE Json(d, Res0, 0)

\* The response goes out whatever saveDB has answered
Atomic(r, req) == Store(saveDB_p0(r.db).file, r, req)

InitAtomic ==
    /\ Healthy
    /\ ADMIN_KEY = AdminKey
    /\ db = EmptyDB_p0
    /\ today = Day0
    /\ minted = 0
    /\ steps = 0
    /\ last = [req |-> Req0, res |-> Res0]

NextAtomic ==
    \* DB_FILE can no longer be written
    \/ /\ disk = "ok"
       /\ disk' = "unwritable"
       /\ last' = [req |-> Request("write-fault"), res |-> Res0]
       /\ UNCHANGED <<db, today, minted, ADMIN_KEY, steps, txn, submitted>>
    \* DB_FILE can be written again
    \/ /\ disk = "unwritable"
       /\ disk' = "ok"
       /\ last' = [req |-> Request("write-repaired"), res |-> Res0]
       /\ UNCHANGED <<db, today, minted, ADMIN_KEY, steps, txn, submitted>>
    \/ \E key \in KeyHeaders, deviceId \in DeviceIds, userName \in UserNames,
          userId \in UserIdInputs :
           /\ key # AdminKey => (deviceId = "d1" /\ userId = "")
           /\ Atomic(AdminGenerate_p0(db, yyyymmddToday, minted, key, deviceId,
                                      StudyExpiry, userName, userId),
                  [Request("generate") EXCEPT !.key = key, !.deviceId = deviceId,
                       !.expiry = StudyExpiry, !.userName = userName, !.userId = userId])
    \/ \E deviceId \in DeviceIds :
           Atomic(RevokeDevice_p0(db, AdminKey, deviceId),
                  [Request("revoke-device") EXCEPT !.key = AdminKey, !.deviceId = deviceId])
    \/ \E deviceId \in DeviceIds :
           Atomic(UnrevokeDevice_p0(db, AdminKey, deviceId),
                  [Request("unrevoke-device") EXCEPT !.key = AdminKey, !.deviceId = deviceId])
    \/ \E userId \in UserIdInputs :
           Atomic(RevokeUser_p0(db, AdminKey, userId),
                  [Request("revoke-user") EXCEPT !.key = AdminKey, !.userId = userId])
    \/ \E userId \in UserIdInputs :
           Atomic(UnrevokeUser_p0(db, AdminKey, userId),
                  [Request("unrevoke-user") EXCEPT !.key = AdminKey, !.userId = userId])
    \/ \E deviceId \in DeviceIds, k \in DeviceIds, testId \in TestIds \cup {" "},
          attemptId \in AttemptIds :
           /\ testId = " " => attemptId = ""
           /\ Atomic(MarkPerfect_p0(db, yyyymmddToday, deviceId,
                                    Issued(k, StudyExpiry), testId, attemptId),
                  [Request("mark-perfect") EXCEPT !.deviceId = deviceId,
                       !.license = Issued(k, StudyExpiry), !.testId = testId,
                       !.attemptId = attemptId])
    \/ \E key \in KeyHeaders :
           Commit(DbStatus_p0(db, key), [Request("db-status") EXCEPT !.key = key])
    \/ \E key \in KeyHeaders :
           Commit(BackupManual_p0(db, key), [Request("backup-manual") EXCEPT !.key = key])
    \/ Tick

SpecAtomic == InitAtomic /\ [][NextAtomic]_vars

(***************************************************************************)
(* License server v2 (src/unnamed/part_002): users carry their devices,    *)
(* there is no set of revoked users, and a license is `${expiry}-${hash}`  *)
(* with the whole digest.                                                  *)
(***************************************************************************)
\* ensureRoot(loadDB()) when DB_FILE does not exist
EmptyDB_v2 ==
    [lic |-> EmptyFn,             \* db[license]
     users |-> EmptyFn,           \* db.__users: userName and the keys of devices
     revokedDevices |-> {},       \* keys of db.__revokedDevices
     progress |-> EmptyFn]        \* db.__progress

computeLicenseHash_v2(deviceId, expiry) == sha256Hex(deviceId, expiry)

\* /^(\d{8})-([a-f0-9]{64})$/i on the trimmed string
parseLicense_v2(license) ==
    IF license.fmt = "old" /\ license.hash.len = 64
    THEN [ok |-> TRUE, expiry |-> license.expiry, hash |-> license.hash]
    ELSE NoParse

\* `${expiry}-${hash}`
V1(expiry, hash) == Lic("old", expiry, hash, FALSE)

\* requireAdmin: the response it sends, or none
requireAdmin(d, key) ==
    IF Falsy(ADMIN_KEY) THEN Send(d, 500, "Missing ADMIN_KEY on server")
    ELSE IF key # ADMIN_KEY THEN Send(d, 401, "Unauthorized")
    ELSE Send(d, 0, "")

\* `LEG_${sha256Hex(base).slice(0, 16)}`, base the name (and exam date) on
\* the record, "User" for a record without a name: one id per name
LegacyUserId(rec) ==
    IF rec.userName = "" THEN "LEG_User"
    ELSE IF rec.userName = "A" THEN "LEG_A"
    ELSE "LEG_other"

\* db.__users[uid] = db.__users[uid] || {...}; devices[deviceId] = ...
RegisterDevice_v2(d, uid, userName, deviceId) ==
    LET u == IF uid \in DOMAIN d.users THEN d.users[uid]
             ELSE [userName |-> userName, devices |-> {}]
    IN [d EXCEPT !.users = Put(d.users, uid, [u EXCEPT !.devices = @ \cup {deviceId}])]

Verify_v2(d, now, deviceId, license) ==
    IF Falsy(deviceId) \/ license = NoLicense
    THEN Send(d, 400, "Missing deviceId/license")
    ELSE LET p == parseLicense_v2(license) IN
    IF ~p.ok THEN Send(d, 400, "Bad license format")
    ELSE IF p.expiry < now THEN Send(d, 403, "Expired")
    ELSE IF computeLicenseHash_v2(deviceId, p.expiry) # p.hash THEN Send(d, 403, "Invalid")
    ELSE IF deviceId \in d.revokedDevices THEN Send(d, 403, "Device revoked")
    ELSE IF license \notin DOMAIN d.lic THEN Send(d, 403, "License not found")
    ELSE LET rec == d.lic[license] IN
         IF rec.deviceId # deviceId
         THEN Send(d, 403, "License already bound to another device")
         ELSE LET userId == IF rec.userId = "" THEN LegacyUserId(rec) ELSE rec.userId
                  d1 == IF rec.userId # "" THEN d
                        ELSE RegisterDevice_v2([d EXCEPT !.lic[license].userId = userId],
                                 userId, IF rec.userName # "" THEN rec.userName ELSE "User",
                                 deviceId)
              IN Json(d1, [Res0 EXCEPT !.userId = userId, !.expiry = p.expiry,
                               !.userName = IF rec.userName # "" THEN rec.userName
                                            ELSE "User",
                               !.firstBind = FALSE], 0)

\* makeUserId() is crypto.randomUUID()
AdminGenerate_v2(d, n, key, deviceId, expiry, userName, userId) ==
    IF requireAdmin(d, key).res.status # 0 THEN requireAdmin(d, key)
    ELSE IF Falsy(deviceId) \/ expiry = 0 \/ userName = ""
    THEN Send(d, 400, "Missing deviceId/expiry/userName")
    ELSE LET given == Trim(userId)
             uid == IF given = "" THEN randomUUID(n) ELSE given
             d1 == RegisterDevice_v2(d, uid, userName, deviceId)
             d2 == [d1 EXCEPT !.users[uid].userName = userName]
             license == V1(expiry, computeLicenseHash_v2(deviceId, expiry))
             d3 == [d2 EXCEPT !.lic = Put(d2.lic, license,
                        [deviceId |-> deviceId, expiry |-> expiry,
                         userId |-> uid, userName |-> userName])]
         IN Json(d3, [Res0 EXCEPT !.license = license, !.expiry = expiry,
                                  !.userId = uid, !.userName = userName],
                 IF given = "" THEN 1 ELSE 0)

RevokeDevice_v2(d, key, deviceId) ==
    IF requireAdmin(d, key).res.status # 0 THEN requireAdmin(d, key)
    ELSE IF Falsy(deviceId) THEN Send(d, 400, "Missing deviceId")
    ELSE Json([d EXCEPT !.revokedDevices = @ \cup {deviceId}], Res0, 0)

UnrevokeDevice_v2(d, key, deviceId) ==
    IF requireAdmin(d, key).res.status # 0 THEN requireAdmin(d, key)
    ELSE IF Falsy(deviceId) THEN Send(d, 400, "Missing deviceId")
    ELSE Json([d EXCEPT !.revokedDevices = @ \ {deviceId}], Res0, 0)

\* Revoke ALL devices of a user: every device the user's record lists goes
\* into the set of revoked devices
RevokeUser_v2(d, key, userId) ==
    IF requireAdmin(d, key).res.status # 0 THEN requireAdmin(d, key)
    ELSE LET uid == Trim(userId) IN
    IF uid = "" THEN Send(d, 400, "Missing userId")
    ELSE IF uid \notin DOMAIN d.users THEN Send(d, 404, "User not found")
    ELSE Json([d EXCEPT !.revokedDevices = @ \cup d.users[uid].devices],
              [Res0 EXCEPT !.userId = uid], 0)

UnrevokeUser_v2(d, key, userId) ==
    IF requireAdmin(d, key).res.status # 0 THEN requireAdmin(d, key)
    ELSE LET uid == Trim(userId) IN
    IF uid = "" THEN Send(d, 400, "Missing userId")
    ELSE IF uid \notin DOMAIN d.users THEN Send(d, 404, "User not found")
    ELSE Json([d EXCEPT !.revokedDevices = @ \ d.users[uid].devices],
              [Res0 EXCEPT !.userId = uid], 0)

\* A client presents a license issued for its device or for the other one
ClientCalls_v2 ==
    {<<deviceId, V1(e, sha256Hex(k, e))>> :
        deviceId \in DeviceIds, k \in DeviceIds, e \in Expiries}

\* A document an earlier version of the server has left: the licenses of
\* d1 and d2, their records without a userId, and no user records
LegacyDB_v2 ==
    [EmptyDB_v2 EXCEPT !.lic =
        [license \in {V1(Day0, sha256Hex(deviceId, Day0)) : deviceId \in DeviceIds} |->
            [deviceId |-> license.hash.of[1], expiry |-> Day0,
             userId |-> "", userName |-> "A"]]]

InitV2 ==
    /\ Healthy
    /\ ADMIN_KEY = AdminKey
    /\ db \in {EmptyDB_v2, LegacyDB_v2}
    /\ today = Day0
    /\ minted = 0
    /\ steps = 0
    /\ last = [req |-> Req0, res |-> Res0]

NextV2 ==
    \/ \E c \in ClientCalls_v2 :
           Commit(Verify_v2(db, yyyymmddToday, c[1], c[2]),
                  [Request("verify") EXCEPT !.deviceId = c[1], !.license = c[2]])
    \/ \E key \in KeyHeaders, deviceId \in DeviceIds, expiry \in Expiries,
          userName \in UserNames, userId \in UserIdInputs :
           /\ key # AdminKey => (deviceId = "d1" /\ userId = "")
           /\ Commit(AdminGenerate_v2(db, minted, key, deviceId, expiry, userName, userId),
                  [Request("generate") EXCEPT !.key = key, !.deviceId = deviceId,
                       !.expiry = expiry, !.userName = userName, !.userId = userId])
    \/ \E deviceId \in DeviceIds :
           Commit(RevokeDevice_v2(db, AdminKey, deviceId),
                  [Request("revoke-device") EXCEPT !.key = AdminKey, !.deviceId = deviceId])
    \/ \E deviceId \in DeviceIds :
           Commit(UnrevokeDevice_v2(db, AdminKey, deviceId),
                  [Request("unrevoke-device") EXCEPT !.key = AdminKey, !.deviceId = deviceId])
    \/ \E userId \in UserIdInputs :
           Commit(RevokeUser_v2(db, AdminKey, userId),
                  [Request("revoke-user") EXCEPT !.key = AdminKey, !.userId = userId])
    \/ \E userId \in UserIdInputs :
           Commit(UnrevokeUser_v2(db, AdminKey, userId),
                  [Request("unrevoke-user") EXCEPT !.key = AdminKey, !.userId = userId])

SpecV2 == InitV2 /\ [][NextV2]_vars

(***************************************************************************)
(* The Postgres variant (src/unnamed/part_001).  The database is a set of  *)
(* tables; the handlers are async functions that await every statement, so *)
(* the statements of two requests interleave.  The tables are those of the *)
(* schema at the end of src/save-test-result.js: user_id is the primary    *)
(* key of progress, and revoked_users.user_id references users.            *)
(***************************************************************************)
EmptyDB_pg ==
    [licenses |-> EmptyFn,        \* license -> user_id, device_id
     users |-> EmptyFn,           \* user_id -> user_name
     revoked_devices |-> {},      \* device_id
     revoked_users |-> {},        \* user_id
     progress |-> <<>>]           \* rows user_id, perfect; user_id is the primary key

\* generateLicenseV1: `${expiry}-${hash}`, hash the whole sha256 digest
generateLicenseV1(deviceId, expiry) == V1(expiry, sha256Hex(deviceId, expiry))

\* parseAndValidateV1: two parts, eight digits, the digest of this device
parseAndValidateV1(license, deviceId) ==
    IF license.fmt # "old" \/ license.pad THEN [valid |-> FALSE, expiry |-> 0]
    ELSE IF ~EightDigits(license.expiry) THEN [valid |-> FALSE, expiry |-> 0]
    ELSE IF license.hash # sha256Hex(deviceId, license.expiry)
    THEN [valid |-> FALSE, expiry |-> 0]
    ELSE [valid |-> TRUE, expiry |-> license.expiry]

\* expiryStr >= todayStr
isExpiryValid(expiry, now) == expiry >= now

\* adminAuth: the express middleware in front of the admin routes
adminAuth(key) == ~(Falsy(key) \/ key # ADMIN_KEY)

\* SELECT ... FROM progress WHERE user_id = $1
SelectProgress(d, userId) ==
    SelectSeq(d.progress, LAMBDA row : row.user_id = userId)

\* POST /api/verify: one transaction
Verify_pg(d, now, deviceId, license) ==
    IF Falsy(deviceId) \/ license = NoLicense
    THEN Send(d, 400, "Missing deviceId or license")
    ELSE LET parsed == parseAndValidateV1(license, deviceId) IN
    IF ~parsed.valid THEN Send(d, 400, "Invalid license format or hash")
    ELSE IF ~isExpiryValid(parsed.expiry, now) THEN Send(d, 400, "Expired")
    ELSE IF license \notin DOMAIN d.licenses THEN Send(d, 404, "License not found")
    ELSE LET row == d.licenses[license]
             isFirstBind == row.device_id = ""
         IN
         IF deviceId \in d.revoked_devices THEN Send(d, 403, "Device revoked")
         ELSE IF row.user_id \in d.revoked_users THEN Send(d, 403, "User revoked")
         ELSE IF ~isFirstBind /\ row.device_id # deviceId
         THEN Send(d, 403, "License already bound to another device")
         ELSE Json(IF isFirstBind
                   THEN [d EXCEPT !.licenses[license].device_id = deviceId]
                   ELSE d,
                   [Res0 EXCEPT !.userId = row.user_id, !.expiry = parsed.expiry,
                        !.userName = IF row.user_id \in DOMAIN d.users
                                     THEN d.users[row.user_id].user_name ELSE "",
                        !.firstBind = isFirstBind], 0)

\* POST /api/progress/get: reads only
GetProgress_pg(d, deviceId, license, testIds) ==
    IF Falsy(deviceId) \/ license = NoLicense
    THEN Send(d, 400, "Missing deviceId or license")
    ELSE IF ~parseAndValidateV1(license, deviceId).valid THEN Send(d, 400, "Invalid license")
    ELSE IF license \notin DOMAIN d.licenses THEN Send(d, 404, "License not found")
    ELSE LET userId == d.licenses[license].user_id
             rows == SelectProgress(d, userId)
         IN
         IF userId \in d.revoked_users THEN Send(d, 403, "User revoked")
         ELSE IF rows = <<>> THEN Json(d, Res0, 0)
         ELSE LET perfect == rows[1].perfect
                  asked == {testIds[i] : i \in DOMAIN testIds}
                  result == IF testIds = <<>> THEN perfect
                            ELSE [t \in asked \cap DOMAIN perfect |-> perfect[t]]
              IN Json(d, [Res0 EXCEPT !.data = result], 0)

\* POST /api/progress/mark-perfect up to "Get current progress": the error
\* it answers, or what the handler holds when it goes on to the upsert
Idle == [pc |-> "idle"]

MarkSelect_pg(d, deviceId, license, moduleId) ==
    LET No(code, msg) == [ok |-> FALSE, res |-> Send(d, code, msg).res, held |-> Idle] IN
    IF Falsy(deviceId) \/ license = NoLicense \/ Falsy(moduleId)
    THEN No(400, "Missing deviceId, license or moduleId")
    ELSE IF ~parseAndValidateV1(license, deviceId).valid THEN No(400, "Invalid license")
    ELSE IF license \notin DOMAIN d.licenses THEN No(404, "License not found")
    ELSE LET userId == d.licenses[license].user_id
             rows == SelectProgress(d, userId)
         IN
         IF userId \in d.revoked_users THEN No(403, "User revoked")
         ELSE [ok |-> TRUE, res |-> Res0,
               held |-> [pc |-> "selected", deviceId |-> deviceId, license |-> license,
                         userId |-> userId, moduleId |-> moduleId,
                         found |-> rows # <<>>,
                         perfectObj |-> IF rows # <<>> THEN rows[1].perfect ELSE EmptyFn]]

\* "Increment perfect count", "Upsert progress", COMMIT and the response.
\* UPDATE rewrites the row of the user with the object the handler holds;
\* INSERT adds a row, and throws on the primary key when a row is there
\* (the catch block rolls back and answers 500)
MarkUpsert_pg(d, held) ==
    LET m == held.moduleId
        perfectCount == IF m \in DOMAIN held.perfectObj
                        THEN held.perfectObj[m].perfectCount + 1 ELSE 1
        perfectObj == Put(held.perfectObj, m, [perfectCount |-> perfectCount])
        body == [Res0 EXCEPT !.perfectCount = perfectCount]
    IN
    IF held.found
    THEN Json([d EXCEPT !.progress =
                   [i \in DOMAIN d.progress |->
                       IF d.progress[i].user_id = held.userId
                       THEN [d.progress[i] EXCEPT !.perfect = perfectObj]
                       ELSE d.progress[i]]], body, 0)
    ELSE IF SelectProgress(d, held.userId) # <<>>
    THEN Send(d, 500, "Internal server error")
    ELSE Json([d EXCEPT !.progress =
                   Append(@, [user_id |-> held.userId, perfect |-> perfectObj])],
              body, 0)

\* The whole handler when no other request comes in between
MarkPerfect_pg(d, deviceId, license, moduleId) ==
    LET s == MarkSelect_pg(d, deviceId, license, moduleId)
    IN IF s.ok THEN MarkUpsert_pg(d, s.held)
       ELSE [db |-> d, res |-> s.res, mint |-> 0]

AdminGenerate_pg(d, key, deviceId, expiry, userName, userId) ==
    IF ~adminAuth(key) THEN Send(d, 403, "Forbidden: Invalid admin key")
    ELSE IF Falsy(deviceId) \/ expiry = 0 \/ userId = "" \/ userName = ""
    THEN Send(d, 400, "Missing required fields: deviceId, expiry, userId, userName")
    ELSE IF ~EightDigits(expiry) THEN Send(d, 400, "Expiry must be YYYYMMDD")
    ELSE LET license == generateLicenseV1(deviceId, expiry)
             d1 == [d EXCEPT !.users = Put(d.users, userId, [user_name |-> userName])]
             d2 == IF license \in DOMAIN d1.licenses THEN d1
                   ELSE [d1 EXCEPT !.licenses = Put(d1.licenses, license,
                             [user_id |-> userId, device_id |-> deviceId])]
         IN Json(d2, [Res0 EXCEPT !.license = license, !.expiry = expiry,
                                  !.userId = userId, !.userName = userName], 0)

RevokeDevice_pg(d, key, deviceId) ==
    IF ~adminAuth(key) THEN Send(d, 403, "Forbidden: Invalid admin key")
    ELSE IF Falsy(deviceId) THEN Send(d, 400, "Missing deviceId")
    ELSE Json([d EXCEPT !.revoked_devices = @ \cup {deviceId}],
              [Res0 EXCEPT !.revoked = TRUE], 0)

UnrevokeDevice_pg(d, key, deviceId) ==
    IF ~adminAuth(key) THEN Send(d, 403, "Forbidden: Invalid admin key")
    ELSE IF Falsy(deviceId) THEN Send(d, 400, "Missing deviceId")
    ELSE Json([d EXCEPT !.revoked_devices = @ \ {deviceId}],
              [Res0 EXCEPT !.revoked = FALSE], 0)

RevokeUser_pg(d, key, userId) ==
    IF ~adminAuth(key) THEN Send(d, 403, "Forbidden: Invalid admin key")
    ELSE IF userId = "" THEN Send(d, 400, "Missing userId")
    ELSE IF userId \notin DOMAIN d.users THEN Send(d, 500, "Internal server error")
    ELSE Json([d EXCEPT !.revoked_users = @ \cup {userId}],
              [Res0 EXCEPT !.userId = userId, !.revoked = TRUE], 0)

UnrevokeUser_pg(d, key, userId) ==
    IF ~adminAuth(key) THEN Send(d, 403, "Forbidden: Invalid admin key")
    ELSE IF userId = "" THEN Send(d, 400, "Missing userId")
    ELSE Json([d EXCEPT !.revoked_users = @ \ {userId}],
              [Res0 EXCEPT !.userId = userId, !.revoked = FALSE], 0)

\* The pool hands out up to five connections; two requests in flight are
\* enough for two handlers to interleave
Slots == {1, 2}

\* The user ids the admin issues licenses to
UserIds_pg == {"u1", "u2"}

\* A client presents a license issued for its device or for the other one
ClientCalls_pg ==
    {<<deviceId, generateLicenseV1(k, e)>> :
        deviceId \in DeviceIds, k \in DeviceIds, e \in Expiries}

\* A mark-perfect request arrives and runs up to its SELECT of the progress
\* row: it is answered at once when a check fails, and is in flight otherwise
PgMarkSelect(i) ==
    \E c \in ClientCalls_pg, moduleId \in {"t1"} :
        LET s == MarkSelect_pg(db, c[1], c[2], moduleId) IN
        /\ txn[i] = Idle
        /\ txn' = [txn EXCEPT ![i] = s.held]
        /\ last' = IF s.ok THEN last
                   ELSE [req |-> Request("mark-perfect"), res |-> s.res]
        /\ UNCHANGED <<db, today, minted, ADMIN_KEY, steps, disk, submitted>>

\* A request in flight runs its UPDATE or INSERT, commits and answers
PgMarkUpsert(i) ==
    /\ txn[i] # Idle
    /\ LET r == MarkUpsert_pg(db, txn[i]) IN
       /\ db' = r.db
       /\ steps' = IF r.db = db THEN steps ELSE steps + 1
       /\ steps' <= MaxSteps
       /\ last' = [req |-> [Request("mark-perfect") EXCEPT
                               !.deviceId = txn[i].deviceId,
                               !.license = txn[i].license,
                               !.testId = txn[i].moduleId],
                   res |-> r.res]
    /\ txn' = [txn EXCEPT ![i] = Idle]
    /\ UNCHANGED <<today, minted, ADMIN_KEY, disk, submitted>>

\* The tables after the admin has issued u1 a license for d1, and after d1
\* has then marked module t1 perfect three times
Issued_pg == AdminGenerate_pg(EmptyDB_pg, AdminKey, "d1", Day0, "A", "u1")

Practised_pg ==
    LET l == generateLicenseV1("d1", Day0)
        m1 == MarkPerfect_pg(Issued_pg.db, "d1", l, "t1")
        m2 == MarkPerfect_pg(m1.db, "d1", l, "t1")
    IN MarkPerfect_pg(m2.db, "d1", l, "t1")

InitPg ==
    /\ disk = "ok"
    /\ submitted = NoLog
    /\ txn = [i \in Slots |-> Idle]
    /\ ADMIN_KEY = AdminKey
    /\ db \in {Issued_pg.db, Practised_pg.db}
    /\ today = Day0
    /\ minted = 0
    /\ steps = 0
    /\ last = [req |-> [Request("generate") EXCEPT !.key = AdminKey, !.deviceId = "d1",
                            !.expiry = Day0, !.userName = "A", !.userId = "u1"],
                res |-> Issued_pg.res]

NextPg ==
    \/ \E c \in ClientCalls_pg :
           Commit(Verify_pg(db, yyyymmddToday, c[1], c[2]),
                  [Request("verify") EXCEPT !.deviceId = c[1], !.license = c[2]])
    \/ \E c \in ClientCalls_pg, testIds \in {<<>>, <<"t1">>} :
           Commit(GetProgress_pg(db, c[1], c[2], testIds),
                  [Request("progress-get") EXCEPT !.deviceId = c[1],
                       !.license = c[2], !.testIds = testIds])
    \/ \E i \in Slots : PgMarkSelect(i) \/ PgMarkUpsert(i)
    \/ \E key \in {AdminKey, "wrong"}, deviceId \in DeviceIds, expiry \in Expiries,
          userName \in UserNames, userId \in UserIds_pg :
           /\ key # AdminKey => (deviceId = "d1" /\ userId = "u1")
           /\ Commit(AdminGenerate_pg(db, key, deviceId, expiry, userName, userId),
                  [Request("generate") EXCEPT !.key = key, !.deviceId = deviceId,
                       !.expiry = expiry, !.userName = userName, !.userId = userId])
    \/ \E deviceId \in DeviceIds :
           Commit(RevokeDevice_pg(db, AdminKey, deviceId),
                  [Request("revoke-device") EXCEPT !.key = AdminKey, !.deviceId = deviceId])
    \/ \E deviceId \in DeviceIds :
           Commit(UnrevokeDevice_pg(db, AdminKey, deviceId),
                  [Request("unrevoke-device") EXCEPT !.key = AdminKey, !.deviceId = deviceId])
    \/ \E userId \in UserIds_pg :
           Commit(RevokeUser_pg(db, AdminKey, userId),
                  [Request("revoke-user") EXCEPT !.key = AdminKey, !.userId = userId])
    \/ \E userId \in SuppliedUserIds :
           Commit(UnrevokeUser_pg(db, AdminKey, userId),
                  [Request("unrevoke-user") EXCEPT !.key = AdminKey, !.userId = userId])
    \/ Tick

SpecPg == InitPg /\ [][NextPg]_vars

(***************************************************************************)
(* server.js under concurrent requests.  Node accepts the requests as they *)
(* come and calls their handlers from its event loop, one callback at a    *)
(* time.  A handler of server.js reads the file with readFileSync, writes  *)
(* it with writeFileSync and awaits nothing in between, so the loop calls  *)
(* no other handler between its read and its write.                        *)
(***************************************************************************)
\* The handler of a request, applied to the document it has read
Handle(d, req) ==
    IF req.op = "mark-perfect"
    THEN MarkPerfect(d, yyyymmddToday, req.deviceId, req.license, req.testId, req.attemptId)
    ELSE IF req.op = "revoke-device" THEN RevokeDevice(d, req.key, req.deviceId)
    ELSE RevokeUser(d, req.key, req.userId)

\* An event loop that gives the next handler its turn at any time
BusyNever == FALSE

\* A handler that does not return to the event loop between loadDB and saveDB
\* leaves no other handler a turn while it holds the document
Busy == \E j \in Slots : txn[j].pc = "loaded"

\* The requests clients and the admin have under way together
LoopRequests ==
    {[Request("mark-perfect") EXCEPT !.deviceId = deviceId,
          !.license = Issued(deviceId, StudyExpiry), !.testId = "t1",
          !.attemptId = attemptId] : deviceId \in DeviceIds, attemptId \in AttemptIds}
    \cup {[Request("revoke-device") EXCEPT !.key = AdminKey, !.deviceId = "d1"],
          [Request("revoke-user") EXCEPT !.key = AdminKey, !.userId = "u1"]}

InitLoop ==
    /\ disk = "ok"
    /\ submitted = NoLog
    /\ txn = [i \in Slots |-> Idle]
    /\ ADMIN_KEY = AdminKey
    /\ db = TwoLicenses.db
    /\ today = Day0
    /\ minted = 0
    /\ steps = 0
    /\ last = [req |-> [Request("generate") EXCEPT !.key = AdminKey, !.deviceId = "d2",
                            !.expiry = StudyExpiry, !.userName = "A", !.userId = "u1"],
                res |-> TwoLicenses.res]

NextLoop ==
    \* a request arrives while others are under way
    \/ \E i \in Slots, req \in LoopRequests :
           /\ txn[i] = Idle
           /\ txn' = [txn EXCEPT ![i] = [pc |-> "queued", req |-> req, doc |-> EmptyDB]]
           /\ UNCHANGED <<db, today, minted, ADMIN_KEY, steps, last, disk, submitted>>
    \* the event loop calls the handler of a request, which reads the file
    \/ \E i \in Slots :
           /\ txn[i].pc = "queued"
           /\ ~Busy
           /\ txn' = [txn EXCEPT ![i].pc = "loaded", ![i].doc = db]
           /\ UNCHANGED <<db, today, minted, ADMIN_KEY, steps, last, disk, submitted>>
    \* the handler goes on to saveDB and its response with what it has read
    \/ \E i \in Slots :
           /\ txn[i].pc = "loaded"
           /\ LET r == Handle(txn[i].doc, txn[i].req) IN
              /\ db' = IF r.res.status = 200 THEN r.db ELSE db
              /\ steps' = IF db' = db THEN steps ELSE steps + 1
              /\ steps' <= MaxSteps
              /\ last' = [req |-> txn[i].req, res |-> r.res]
           /\ txn' = [txn EXCEPT ![i] = Idle]
           /\ UNCHANGED <<today, minted, ADMIN_KEY, disk, submitted>>

SpecLoop == InitLoop /\ [][NextLoop]_vars

(***************************************************************************)
(* The handler of test results (src/save-test-result.js).  One MongoClient *)
(* serves every invocation of the module; an invocation connects it, reads *)
(* the document of the test, writes it back and closes the client.  The    *)
(* invocations are async functions and interleave at every await.          *)
(***************************************************************************)
\* The collection test_results by testKey, and the state of the client
EmptyDB_m == [test_results |-> EmptyFn, client |-> "closed"]

\* `${userId}_${testName}`
TestKey(userId, testName) == <<userId, testName>>

\* collection.findOne({ testKey }), or the new result of a first submission
FindOne(d, testKey) ==
    IF testKey \in DOMAIN d.test_results THEN d.test_results[testKey]
    ELSE [count |-> 0, completed |-> FALSE]

\* "Chi tang count neu chua dat 3 va chua hoan thanh": the result to $set
Counted_m(result) ==
    IF ~result.completed /\ result.count < 3
    THEN [count |-> result.count + 1, completed |-> result.count + 1 >= 3]
    ELSE result

\* An operation on a client that another invocation has closed throws, or
\* the driver connects again: which of the two depends on the driver
OnClient(d, reconnects) == d.client = "open" \/ reconnects

InitMongo ==
    /\ disk = "ok"
    /\ submitted = NoLog
    /\ txn = [i \in Slots |-> Idle]
    /\ ADMIN_KEY = AdminKey
    /\ db = EmptyDB_m
    /\ today = Day0
    /\ minted = 0
    /\ steps = 0
    /\ last = [req |-> Req0, res |-> Res0]

NextMongo ==
    \* a request arrives: "Invalid data" is answered from inside the try
    \* block, so its finally closes the client; a valid one connects
    \* (the bodies carry a perfect score, or one that is not)
    \/ \E i \in Slots, req \in {[Request("save-test-result") EXCEPT !.userId = "u1",
                                      !.testId = "t1", !.expiry = score] :
                                     score \in {100, 90}} :
           /\ txn[i] = Idle
           /\ IF req.expiry # 100
              THEN /\ txn' = txn
                   /\ db' = [db EXCEPT !.client = "closed"]
                   /\ last' = [req |-> req, res |-> Send(db, 400, "Invalid data").res]
              ELSE /\ txn' = [txn EXCEPT ![i] = [pc |-> "connected", req |-> req,
                                                result |-> FindOne(EmptyDB_m, "")]]
                   /\ db' = [db EXCEPT !.client = "open"]
                   /\ last' = last
           /\ UNCHANGED <<today, minted, ADMIN_KEY, steps, disk, submitted>>
    \* await collection.findOne
    \/ \E i \in Slots, reconnects \in BOOLEAN :
           /\ txn[i].pc = "connected"
           /\ IF OnClient(db, reconnects)
              THEN /\ txn' = [txn EXCEPT ![i].pc = "found", ![i].result =
                                 FindOne(db, TestKey(txn[i].req.userId, txn[i].req.testId))]
                   /\ db' = [db EXCEPT !.client = "open"]
                   /\ last' = last
              ELSE /\ txn' = [txn EXCEPT ![i] = Idle]
                   /\ db' = db
                   /\ last' = [req |-> txn[i].req,
                               res |-> Send(db, 500, "Internal server error").res]
           /\ UNCHANGED <<today, minted, ADMIN_KEY, steps, disk, submitted>>
    \* await collection.updateOne where the count grows, the response, and
    \* client.close() in the finally block
    \/ \E i \in Slots, reconnects \in BOOLEAN :
           /\ txn[i].pc = "found"
           /\ LET result == Counted_m(txn[i].result)
                  testKey == TestKey(txn[i].req.userId, txn[i].req.testId)
                  writes == result # txn[i].result
              IN IF writes /\ ~OnClient(db, reconnects)
                 THEN /\ db' = db
                      /\ steps' = steps
                      /\ last' = [req |-> txn[i].req,
                                  res |-> Send(db, 500, "Internal server error").res]
                 ELSE /\ db' = [test_results |->
                                    IF writes THEN Put(db.test_results, testKey, result)
                                    ELSE db.test_results,
                                client |-> "closed"]
                      /\ steps' = IF db'.test_results = db.test_results
                                  THEN steps ELSE steps + 1
                      /\ steps' <= MaxSteps
                      /\ last' = [req |-> txn[i].req,
                                  res |-> [Res0 EXCEPT !.status = 200, !.msg = "ok",
                                               !.perfectCount = result.count,
                                               !.completed = result.completed]]
           /\ txn' = [txn EXCEPT ![i] = Idle]
           /\ UNCHANGED <<today, minted, ADMIN_KEY, disk, submitted>>

SpecMongo == InitMongo /\ [][NextMongo]_vars

(***************************************************************************)
(* Properties                                                              *)
(***************************************************************************)
\* The license carries the signature of (deviceId, its own expiry)
SignedFor(deviceId, license) ==
    /\ license.fmt = "N1"
    /\ license.hash = [of |-> <<deviceId, license.expiry>>, len |-> 24]

\* The license strings a request may carry in the current state
Licenses == {c[2] : c \in ClientCalls} \cup DOMAIN db.lic

MarkArgs == (TestIds \cup {" "}) \X AttemptIds

MismatchMsg == "License already bound to another device"

Verified(deviceId, license) == VerifyLicense(db, today, minted, deviceId, license)

\* ---- C1 ----
\* C1, as stated: Verify of a license whose record is bound to another
\* device answers with the device-mismatch error and changes nothing.
C1_Original ==
    \A license \in DOMAIN db.lic, deviceId \in DeviceIds :
        db.lic[license].deviceId # deviceId =>
            LET r == Verified(deviceId, license)
            IN r.res.msg = MismatchMsg /\ r.db = db

\* C1, amended: Verify of a license whose record is bound to another device
\* never succeeds and leaves the document unchanged; the error is "Expired"
\* when the license has expired and otherwise "Invalid" when its signature
\* is not the one of the calling device, because both checks precede the
\* binding check; the device-mismatch error needs a signature valid for the
\* calling device.
C1_Amended ==
    \A license \in DOMAIN db.lic, deviceId \in DeviceIds :
        db.lic[license].deviceId # deviceId =>
            LET r == Verified(deviceId, license)
            IN /\ r.res.status = 403
               /\ r.db = db
               /\ license.expiry < today => r.res.msg = "Expired"
               /\ (license.expiry >= today /\ ~SignedFor(deviceId, license))
                      => r.res.msg = "Invalid"
               /\ r.res.msg = MismatchMsg => SignedFor(deviceId, license)

\* A device has just been answered "Invalid" for an unexpired license that
\* is bound to another device
C1_Witness ==
    /\ last.req.op = "verify"
    /\ last.res.msg = "Invalid"
    /\ \E license \in DOMAIN db.lic, deviceId \in DeviceIds :
           /\ db.lic[license].deviceId # deviceId
           /\ license.expiry >= today
           /\ Verified(deviceId, license).res = last.res

\* ---- C2 ----
\* C2: once a license record exists, no request changes the device it is
\* bound to (the signature being collision-free, as modelled).
C2_BoundDeviceFixed ==
    [][\A license \in DOMAIN db.lic :
           /\ license \in DOMAIN db'.lic
           /\ db'.lic[license].deviceId = db.lic[license].deviceId]_vars

\* AdminGenerate has just re-issued a license whose record existed (its
\* device is on the list of another user, the earlier owner)
C2_Witness ==
    /\ last.req.op = "generate"
    /\ last.res.status = 200
    /\ db.lic[last.res.license].deviceId = last.req.deviceId
    /\ \E u \in DOMAIN db.userDevices :
           u # last.res.userId /\ last.req.deviceId \in db.userDevices[u]

\* ---- C3 ----
\* C3, as stated: the owning userId of a license record never changes once
\* the record exists.
C3_OwnerFixed ==
    [][\A license \in DOMAIN db.lic :
           /\ license \in DOMAIN db'.lic
           /\ db'.lic[license].userId = db.lic[license].userId]_vars

\* ---- C4 ----
\* C4: a well-formed license whose expiry is before today is answered
\* "Expired" by Verify, GetProgress and MarkPerfect, whatever its signature,
\* and nothing is changed; a license that expires today is not.
C4_ExpiredRejected ==
    \A license \in Licenses, deviceId \in DeviceIds :
        parseLicense(license).ok =>
            LET v == Verified(deviceId, license)
                Rejected(r) == r.res.status = 403 /\ r.res.msg = "Expired" /\ r.db = db
            IN /\ license.expiry < today =>
                   /\ Rejected(v)
                   /\ \A testIds \in TestIdLists :
                          Rejected(GetProgress(db, today, deviceId, license, testIds))
                   /\ \A m \in MarkArgs :
                          Rejected(MarkPerfect(db, today, deviceId, license, m[1], m[2]))
               /\ license.expiry = today =>
                   /\ v.res.msg # "Expired"
                   /\ \A testIds \in TestIdLists :
                          GetProgress(db, today, deviceId, license, testIds).res.msg # "Expired"
                   /\ \A m \in MarkArgs :
                          MarkPerfect(db, today, deviceId, license, m[1], m[2]).res.msg # "Expired"

\* MarkPerfect has just been answered "Expired" while the document holds an
\* expired license with a valid signature, bound to its device
C4_Witness ==
    /\ last.req.op = "mark-perfect"
    /\ last.res.msg = "Expired"
    /\ \E license \in DOMAIN db.lic :
           /\ license.expiry < today
           /\ SignedFor(db.lic[license].deviceId, license)

\* ---- C5 ----
\* A validly signed, unexpired license without a record, presented by its
\* own device, which is not revoked, while ids can still be minted
Fresh(deviceId, license) ==
    /\ SignedFor(deviceId, license)
    /\ license.expiry >= today
    /\ license \notin DOMAIN db.lic
    /\ deviceId \notin db.revokedDevices
    /\ minted < Len(MintTable)

\* The first Verify, the second one from the same device, and the answer a
\* third one from another device would then get
FirstUse(deviceId, license) == Verified(deviceId, license)
SecondUse(deviceId, license) ==
    VerifyLicense(FirstUse(deviceId, license).db, today, minted + 1, deviceId, license)
ThirdUse(deviceId, license, other) ==
    VerifyLicense(SecondUse(deviceId, license).db, today, minted + 1, other, license)

C5_FirstTwo(deviceId, license) ==
    LET r1 == FirstUse(deviceId, license)
        r2 == SecondUse(deviceId, license)
    IN /\ r1.res.status = 200 /\ r1.res.firstBind
       /\ license \in DOMAIN r1.db.lic /\ r1.db.lic[license].deviceId = deviceId
       /\ r2.res.status = 200 /\ ~r2.res.firstBind

\* C5, as stated: first use binds (firstBind = true), the second use from
\* the same device has firstBind = false, and a use from another device is
\* answered with the device-mismatch error.
C5_Original ==
    \A license \in Licenses, deviceId \in DeviceIds :
        Fresh(deviceId, license) =>
            /\ C5_FirstTwo(deviceId, license)
            /\ \A other \in DeviceIds \ {deviceId} :
                   ThirdUse(deviceId, license, other).res.msg = MismatchMsg

\* C5, amended: first use binds (firstBind = true), the second use from the
\* same device has firstBind = false, and a use of the same license string
\* from another device is rejected (403) and changes nothing: with "Invalid"
\* when the signature is not the one of that device, the signature check
\* preceding the binding check; the device-mismatch error needs a signature
\* that is valid for that device too.
C5_Amended ==
    \A license \in Licenses, deviceId \in DeviceIds :
        Fresh(deviceId, license) =>
            /\ C5_FirstTwo(deviceId, license)
            /\ \A other \in DeviceIds \ {deviceId} :
                   LET r3 == ThirdUse(deviceId, license, other)
                   IN /\ r3.res.status = 403
                      /\ r3.db = SecondUse(deviceId, license).db
                      /\ ~SignedFor(other, license) => r3.res.msg = "Invalid"
                      /\ r3.res.msg = MismatchMsg => SignedFor(other, license)

\* Another device has just been answered "Invalid" for a license that its
\* own device had registered by a first use
C5_Witness ==
    /\ last.req.op = "verify"
    /\ last.res.msg = "Invalid"
    /\ \E license \in DOMAIN db.lic, other \in DeviceIds :
           /\ db.lic[license].userId \in MintedIds(minted)
           /\ db.lic[license].userName = "User"
           /\ other # db.lic[license].deviceId
           /\ Verified(other, license).res = last.res

\* ---- C6 ----
\* C6, as stated: the license AdminGenerate returned is accepted by Verify
\* from its device in every later state where it has not expired and neither
\* the device nor the user AdminGenerate returned is revoked, and Verify
\* returns the userId and expiry AdminGenerate returned.  Stated on the
\* state after the request that follows the AdminGenerate.
C6_IssuedLicenseVerifies ==
    [][(/\ last.req.op = "generate"
        /\ last.res.status = 200
        /\ last.res.expiry >= today'
        /\ last.req.deviceId \notin db'.revokedDevices
        /\ last.res.userId \notin db'.revokedUsers)
       => LET r == VerifyLicense(db', today', minted', last.req.deviceId, last.res.license)
          IN /\ r.res.status = 200
             /\ r.res.userId = last.res.userId
             /\ r.res.expiry = last.res.expiry]_vars

\* ---- C7 ----
\* A stored license that is validly signed for the device it is bound to
\* and has not expired
Sound(license) ==
    /\ license \in DOMAIN db.lic
    /\ SignedFor(db.lic[license].deviceId, license)
    /\ license.expiry >= today

C7_State ==
    \A license \in DOMAIN db.lic :
        (Sound(license) /\ db.lic[license].deviceId \notin db.revokedDevices) =>
            LET deviceId == db.lic[license].deviceId
                revoked == db.lic[license].userId \in db.revokedUsers
                Answer(r) == IF revoked
                             THEN r.res.status = 403 /\ r.res.msg = "User revoked" /\ r.db = db
                             ELSE r.res.status = 200
            IN /\ Answer(Verified(deviceId, license))
               /\ \A testId \in TestIds, attemptId \in AttemptIds :
                      Answer(MarkPerfect(db, today, deviceId, license, testId, attemptId))

\* C7: a user is in the revoked set from a successful revoke-user of that
\* user until a successful unrevoke-user of that user and at no other time;
\* while the owner of a validly signed, unexpired, bound license is in the
\* set and its device is not revoked, Verify and MarkPerfect with it are
\* answered "User revoked" (also for a license issued after the
\* revocation), and while the owner is not in the set they succeed.
C7_UserRevocation ==
    /\ []C7_State
    /\ [][/\ \A u \in db.revokedUsers \cup db'.revokedUsers :
                 (u \in db'.revokedUsers) # (u \in db.revokedUsers) =>
                     /\ last'.res.status = 200
                     /\ last'.req.userId = u
                     /\ last'.req.op = IF u \in db'.revokedUsers
                                       THEN "revoke-user" ELSE "unrevoke-user"
          /\ (last'.req.op = "revoke-user" /\ last'.res.status = 200)
                 => last'.res.userId \in db'.revokedUsers
          /\ (last'.req.op = "unrevoke-user" /\ last'.res.status = 200)
                 => last'.res.userId \notin db'.revokedUsers]_vars

\* AdminGenerate has just issued a license to a user who is revoked, and
\* Verify with it is answered "User revoked"
C7_Witness ==
    /\ last.req.op = "generate"
    /\ last.res.status = 200
    /\ last.res.userId \in db.revokedUsers
    /\ Sound(last.res.license)
    /\ last.req.deviceId \notin db.revokedDevices
    /\ Verified(last.req.deviceId, last.res.license).res.msg = "User revoked"

\* ---- C8 ----
\* C8: no Verify, GetProgress or MarkPerfect from a revoked device succeeds
\* or changes the document; with a validly signed, unexpired license bound
\* to the device, the error is "Device revoked" also when the owner is
\* revoked as well.
C8_RevokedDevice ==
    \A deviceId \in db.revokedDevices, license \in Licenses :
        LET Refused(r) == r.res.status # 200 /\ r.db = db
            ByDevice(r) == r.res.status = 403 /\ r.res.msg = "Device revoked"
            bound == Sound(license) /\ db.lic[license].deviceId = deviceId
        IN /\ Refused(Verified(deviceId, license))
           /\ bound => ByDevice(Verified(deviceId, license))
           /\ \A testIds \in TestIdLists :
                  LET r == GetProgress(db, today, deviceId, license, testIds)
                  IN Refused(r) /\ (bound => ByDevice(r))
           /\ \A m \in MarkArgs :
                  LET r == MarkPerfect(db, today, deviceId, license, m[1], m[2])
                  IN Refused(r) /\ (bound => ByDevice(r))

\* A request has just been answered "Device revoked" while a license bound
\* to a revoked device belongs to a revoked user
C8_Witness ==
    /\ last.req.op \in {"verify", "progress-get", "mark-perfect"}
    /\ last.res.msg = "Device revoked"
    /\ \E license \in DOMAIN db.lic :
           /\ Sound(license)
           /\ db.lic[license].deviceId \in db.revokedDevices
           /\ db.lic[license].userId \in db.revokedUsers

\* ---- C9 ----
\* C9: GetProgress and MarkPerfect succeed only with a license that is
\* validly signed for the calling device, unexpired, stored and bound to
\* that device, while neither the device nor the owner is revoked; Verify
\* with the same device and license then succeeds in the same state.
C9_ProgressNeedsVerify ==
    \A deviceId \in DeviceIds, license \in Licenses :
        LET Authorized ==
                /\ SignedFor(deviceId, license)
                /\ license.expiry >= today
                /\ license \in DOMAIN db.lic
                /\ db.lic[license].deviceId = deviceId
                /\ deviceId \notin db.revokedDevices
                /\ db.lic[license].userId \notin db.revokedUsers
                /\ Verified(deviceId, license).res.status = 200
        IN /\ \A testIds \in TestIdLists :
                  GetProgress(db, today, deviceId, license, testIds).res.status = 200
                      => Authorized
           /\ \A m \in MarkArgs :
                  MarkPerfect(db, today, deviceId, license, m[1], m[2]).res.status = 200
                      => Authorized

\* MarkPerfect has just succeeded
C9_Witness ==
    /\ last.req.op = "mark-perfect"
    /\ last.res.status = 200
    /\ Verified(last.req.deviceId, last.req.license).res.status = 200

\* ---- C10 ----
\* The stored perfectCount of (userId, testId), 0 when there is no record
CountOf(d, userId, testId) ==
    IF userId \in DOMAIN d.progress /\ testId \in DOMAIN d.progress[userId]
    THEN d.progress[userId][testId].perfectCount
    ELSE 0

StoredCounts(d) ==
    {<<u, t>> : u \in DOMAIN d.progress, t \in TestIds}

C10_State ==
    /\ \A k \in StoredCounts(db) : CountOf(db, k[1], k[2]) \in 0..3
    /\ \A deviceId \in DeviceIds, license \in DOMAIN db.lic,
          testId \in TestIds, attemptId \in AttemptIds :
           LET r == MarkPerfect(db, today, deviceId, license, testId, attemptId)
               u == db.lic[license].userId
               c == CountOf(db, u, testId)
           IN (r.res.status = 200 /\ ~r.res.deduped) =>
                  /\ CountOf(r.db, u, testId) = Min(c + 1, 3)
                  /\ r.res.perfectCount = Min(c + 1, 3)

\* C10: every stored perfectCount is an integer in 0..3, no request
\* decreases one, and a MarkPerfect that is not deduplicated changes the
\* count c of its (userId, testId) to min(c + 1, 3).
C10_PerfectCount ==
    /\ []C10_State
    /\ [][/\ \A k \in StoredCounts(db) :
                 CountOf(db', k[1], k[2]) >= CountOf(db, k[1], k[2])
          /\ (last'.req.op = "mark-perfect" /\ last'.res.status = 200 /\ ~last'.res.deduped)
                 => LET u == db'.lic[last'.req.license].userId
                        c == CountOf(db, u, last'.req.testId)
                    IN /\ CountOf(db', u, last'.req.testId) = Min(c + 1, 3)
                       /\ last'.res.perfectCount = Min(c + 1, 3)]_vars

\* A MarkPerfect that was not deduplicated has just answered 3, the count
\* stored is 3, and the same MarkPerfect once more leaves it at 3
C10_Witness ==
    /\ last.req.op = "mark-perfect"
    /\ last.res.status = 200
    /\ ~last.res.deduped
    /\ last.res.perfectCount = 3
    /\ LET r == MarkPerfect(db, today, last.req.deviceId, last.req.license,
                            last.req.testId, last.req.attemptId)
           u == db.lic[last.req.license].userId
       IN /\ CountOf(db, u, last.req.testId) = 3
          /\ r.res.status = 200 /\ ~r.res.deduped
          /\ CountOf(r.db, u, last.req.testId) = 3

\* ---- C11 ----
\* The stored progress record of (userId, testId), NoProgress when absent
RecordOf(d, userId, testId) ==
    IF userId \in DOMAIN d.progress /\ testId \in DOMAIN d.progress[userId]
    THEN d.progress[userId][testId]
    ELSE NoProgress

\* The ids a buffer holds
IdsOf(recent) == {recent[i] : i \in DOMAIN recent}

\* The days from today on which the license is still valid
DaysLeft(license) == {day \in Days : day >= today /\ day <= license.expiry}

\* C11: a successful MarkPerfect whose non-empty attemptId is in the
\* buffer of its (userId, testId) answers deduped = true with the stored
\* count and leaves the record (perfectCount, updatedAt, buffer) as it was;
\* and after any successful MarkPerfect with a non-empty attemptId, the same
\* call again, the same day or later, is deduplicated and the count stays.
C11_Dedup ==
    \A c \in StudyCalls, testId \in TestIds, attemptId \in RetryIds \ {""} :
        LET u == db.lic[c[2]].userId
            old == RecordOf(db, u, testId)
            r1 == MarkPerfect(db, today, c[1], c[2], testId, attemptId)
        IN r1.res.status = 200 =>
               /\ attemptId \in IdsOf(old.recentAttempts) =>
                      /\ r1.res.deduped
                      /\ r1.res.perfectCount = old.perfectCount
                      /\ RecordOf(r1.db, u, testId) = old
               /\ \A day \in DaysLeft(c[2]) :
                      LET r2 == MarkPerfect(r1.db, day, c[1], c[2], testId, attemptId)
                      IN /\ r2.res.status = 200
                         /\ r2.res.deduped
                         /\ r2.res.perfectCount = r1.res.perfectCount
                         /\ RecordOf(r2.db, u, testId) = RecordOf(r1.db, u, testId)

\* A MarkPerfect has just been deduplicated, a day after the record was
\* stamped, against an id that is not the newest of the buffer
C11_Witness ==
    /\ last.req.op = "mark-perfect"
    /\ last.res.status = 200
    /\ last.res.deduped
    /\ LET rec == RecordOf(db, db.lic[last.req.license].userId, last.req.testId)
       IN /\ rec.updatedAt < today
          /\ rec.perfectCount = last.res.perfectCount
          /\ last.req.attemptId \in IdsOf(rec.recentAttempts)
          /\ rec.recentAttempts[Len(rec.recentAttempts)] # last.req.attemptId

\* ---- C12 ----
\* No progress record is stored for (userId, testId)
Unmarked(d, userId, testId) ==
    userId \notin DOMAIN d.progress \/ testId \notin DOMAIN d.progress[userId]

\* What a MarkPerfect response reports
Reports(r, perfectCount, percent, completed) ==
    /\ r.res.status = 200
    /\ r.res.perfectCount = perfectCount
    /\ r.res.percent = percent
    /\ r.res.completed = completed

\* C12: from a (userId, testId) without a progress record, three successful
\* MarkPerfect calls with pairwise distinct attemptIds report perfectCount
\* 1, 2, 3 with percent 33, 67, 100 and completed false, false, true, and a
\* further call, whatever its attemptId, reports 3 and completed; so does
\* every successful call on a record whose count is 3.
C12_ThreeToComplete ==
    \A c \in StudyCalls, testId \in TestIds :
        LET u == db.lic[c[2]].userId
            Mark(d, attemptId) == MarkPerfect(d, today, c[1], c[2], testId, attemptId)
        IN /\ (Unmarked(db, u, testId) /\ Mark(db, "").res.status = 200) =>
                  \A x, y, z \in RetryIds \ {""} :
                      (x # y /\ y # z /\ x # z) =>
                          LET r1 == Mark(db, x)
                              r2 == Mark(r1.db, y)
                              r3 == Mark(r2.db, z)
                          IN /\ Reports(r1, 1, 33, FALSE)
                             /\ Reports(r2, 2, 67, FALSE)
                             /\ Reports(r3, 3, 100, TRUE)
                             /\ \A w \in RetryIds : Reports(Mark(r3.db, w), 3, 100, TRUE)
           /\ (~Unmarked(db, u, testId) /\ db.progress[u][testId].perfectCount = 3) =>
                  \A w \in RetryIds :
                      LET r == Mark(db, w)
                      IN r.res.status = 200 => Reports(r, 3, 100, TRUE)

\* The third of three MarkPerfect calls with distinct attemptIds has just
\* reported 3, 100 and completed
C12_Witness ==
    /\ last.req.op = "mark-perfect"
    /\ ~last.res.deduped
    /\ Reports([res |-> last.res], 3, 100, TRUE)
    /\ steps = 3
    /\ LET u == db.lic[last.req.license].userId
       IN /\ ~Unmarked(db, u, last.req.testId)
          /\ db.progress[u][last.req.testId].perfectCount = 3
          /\ Len(db.progress[u][last.req.testId].recentAttempts) = 3
          /\ Cardinality(IdsOf(db.progress[u][last.req.testId].recentAttempts)) = 3

\* ---- C13 ----
\* C13: no stored buffer holds more than 20 ids or the same id twice; a
\* successful MarkPerfect with a non-empty attemptId the buffer does not
\* hold appends it, and when the buffer held 20 ids the oldest (the first)
\* is dropped and the other 19 keep their order in front of the new id.
C13_RecentBuffer ==
    /\ \A u \in DOMAIN db.progress : \A t \in DOMAIN db.progress[u] :
           LET recent == db.progress[u][t].recentAttempts
           IN Len(recent) <= 20 /\ Cardinality(IdsOf(recent)) = Len(recent)
    /\ \A c \in StudyCalls, testId \in TestIds, attemptId \in RetryIds \ {""} :
           LET u == db.lic[c[2]].userId
               old == RecordOf(db, u, testId).recentAttempts
               r == MarkPerfect(db, today, c[1], c[2], testId, attemptId)
               new == RecordOf(r.db, u, testId).recentAttempts
           IN (r.res.status = 200 /\ attemptId \notin IdsOf(old)) =>
                  IF Len(old) = 20
                  THEN /\ Len(new) = 20
                       /\ new[20] = attemptId
                       /\ \A i \in 1..19 : new[i] = old[i + 1]
                  ELSE new = old \o <<attemptId>>

\* A new id has just been recorded into a buffer that held a1 .. a20: the
\* buffer holds a2 .. a20 and the new id
C13_Witness ==
    /\ last.req.op = "mark-perfect"
    /\ last.res.status = 200
    /\ ~last.res.deduped
    /\ last.req.attemptId = "a21"
    /\ LET recent == RecordOf(db, db.lic[last.req.license].userId,
                              last.req.testId).recentAttempts
       IN /\ Len(recent) = 20
          /\ recent[1] = "a2"
          /\ recent[19] = "a20"
          /\ recent[20] = "a21"

\* ---- C14 ----
PercentOf(perfectCount) == <<0, 33, 67, 100>>[perfectCount + 1]

\* The response fields (of MarkPerfect, or of one entry of GetProgress)
\* agree with the count stored after the call
Agrees(e, d, userId, testId) ==
    /\ e.perfectCount = CountOf(d, userId, testId)
    /\ e.perfectCount \in 0..3
    /\ e.percent = PercentOf(e.perfectCount)
    /\ e.completed = (e.perfectCount >= 3)

\* C14: every successful MarkPerfect response, deduplicated or not, and
\* every entry of a successful GetProgress response has percent 0, 33, 67,
\* 100 for perfectCount 0, 1, 2, 3 and completed = (perfectCount >= 3), and
\* its perfectCount is the count stored for (userId, testId) after the call.
C14_ResponseFields ==
    \A c \in StudyCalls :
        LET u == db.lic[c[2]].userId
        IN /\ \A testId \in TestIds, attemptId \in RetryIds :
                  LET r == MarkPerfect(db, today, c[1], c[2], testId, attemptId)
                  IN r.res.status = 200 => Agrees(r.res, r.db, u, testId)
           /\ \A testIds \in StudyTestIdLists :
                  LET r == GetProgress(db, today, c[1], c[2], testIds)
                  IN r.res.status = 200 =>
                         \A tid \in DOMAIN r.res.data :
                             Agrees(r.res.data[tid], r.db, u, tid)

\* GetProgress has just reported a test at 2 of 3 (67 percent, not
\* completed)
C14_Witness ==
    /\ last.req.op = "progress-get"
    /\ last.res.status = 200
    /\ "t1" \in DOMAIN last.res.data
    /\ last.res.data["t1"].perfectCount = 2
    /\ last.res.data["t1"].percent = 67
    /\ ~last.res.data["t1"].completed
    /\ CountOf(db, last.res.userId, "t1") = 2

\* ---- C15 ----
\* C15: a successful GetProgress reports every requested non-blank testId
\* that has no progress record for the calling user with perfectCount 0,
\* percent 0 and completed false.
C15_UnmarkedIsZero ==
    \A c \in StudyCalls, testIds \in StudyTestIdLists :
        LET u == db.lic[c[2]].userId
            r == GetProgress(db, today, c[1], c[2], testIds)
        IN r.res.status = 200 =>
               \A tid \in IdsOf(testIds) \ {"", " "} :
                   Unmarked(db, u, tid) =>
                       /\ tid \in DOMAIN r.res.data
                       /\ r.res.data[tid].perfectCount = 0
                       /\ r.res.data[tid].percent = 0
                       /\ r.res.data[tid].completed = FALSE

\* GetProgress has just reported zero for t2, which was never marked,
\* next to t1, which was
C15_Witness ==
    /\ last.req.op = "progress-get"
    /\ last.res.status = 200
    /\ Unmarked(db, last.res.userId, "t2")
    /\ ~Unmarked(db, last.res.userId, "t1")
    /\ DOMAIN last.res.data = {"t1", "t2"}
    /\ last.res.data["t2"].perfectCount = 0
    /\ last.res.data["t2"].percent = 0
    /\ ~last.res.data["t2"].completed
    /\ last.res.data["t1"].perfectCount >= 1

\* ---- C16 ----
\* What the admin routes answer to the requests that carry the given key
AdminResults(key) ==
    {AdminGenerate(db, minted, key, deviceId, expiry, userName, userId) :
         deviceId \in DeviceIds, expiry \in Expiries,
         userName \in UserNames, userId \in UserIdInputs}
    \cup {RevokeDevice(db, key, deviceId) : deviceId \in DeviceIds}
    \cup {UnrevokeDevice(db, key, deviceId) : deviceId \in DeviceIds}
    \cup {RevokeUser(db, key, userId) : userId \in UserIdInputs}
    \cup {UnrevokeUser(db, key, userId) : userId \in UserIdInputs}
    \cup {UserInfo(db, key, userId) : userId \in UserIdInputs}

\* No x-admin-key header, or one that is not the configured key
WithoutTheKey(key) == key = "" \/ key # ADMIN_KEY

\* C16, as stated: every admin request without the header or with a key
\* other than ADMIN_KEY is rejected with an authorization error (401 or
\* 403) and changes nothing, also when ADMIN_KEY is not configured.
C16_Original ==
    \A key \in KeyHeaders :
        WithoutTheKey(key) =>
            \A r \in AdminResults(key) :
                r.res.status \in {401, 403} /\ r.db = db

\* C16, amended: every admin request without the header or with a key
\* other than ADMIN_KEY is rejected and changes nothing: with 401
\* "Unauthorized" when ADMIN_KEY is configured, and with 500 "Missing
\* ADMIN_KEY on server" when it is not (then whatever the header).
C16_Amended ==
    \A key \in KeyHeaders :
        WithoutTheKey(key) =>
            \A r \in AdminResults(key) :
                /\ r.db = db
                /\ r.mint = 0
                /\ IF ADMIN_KEY = ""
                   THEN r.res.status = 500 /\ r.res.msg = "Missing ADMIN_KEY on server"
                   ELSE r.res.status = 401 /\ r.res.msg = "Unauthorized"

\* On a server without ADMIN_KEY that holds a license (a device registered
\* it by a first use), an admin request has just been answered 500
C16_Witness ==
    /\ ADMIN_KEY = ""
    /\ DOMAIN db.lic # {}
    /\ last.req.op \in {"generate", "revoke-device", "unrevoke-device",
                        "revoke-user", "unrevoke-user", "user-info"}
    /\ last.res.status = 500
    /\ last.res.msg = "Missing ADMIN_KEY on server"

\* ---- C17 ----
\* The answer is 200 or an error status, and an error comes with the
\* document as it was and no id minted
Quiet(r) ==
    /\ r.res.status \in {200, 400, 401, 403, 500}
    /\ r.res.status # 200 => (r.db = db /\ r.mint = 0)

\* The client routes, on the requests of the model and on requests that
\* lack a field
QuietClients ==
    /\ \A deviceId \in DeviceIds, license \in Licenses :
           /\ Quiet(VerifyLicense(db, today, minted, deviceId, license))
           /\ \A testIds \in TestIdLists :
                  Quiet(GetProgress(db, today, deviceId, license, testIds))
           /\ \A m \in MarkArgs :
                  Quiet(MarkPerfect(db, today, deviceId, license, m[1], m[2]))
    /\ Quiet(VerifyLicense(db, today, minted, "", Issued("d1", Day0)))
    /\ Quiet(VerifyLicense(db, today, minted, "d1", NoLicense))
    /\ Quiet(GetProgress(db, today, "", Issued("d1", Day0), <<"t1">>))
    /\ Quiet(GetProgress(db, today, "d1", NoLicense, <<"t1">>))
    /\ Quiet(MarkPerfect(db, today, "", Issued("d1", Day0), "t1", "a1"))
    /\ Quiet(MarkPerfect(db, today, "d1", NoLicense, "t1", "a1"))
    /\ Quiet(MarkPerfect(db, today, "d1", Issued("d1", Day0), "", "a1"))

\* The admin routes, with the given key, on the requests of the model and
\* on requests that lack a field or carry a malformed expiry
QuietAdmin(key) ==
    /\ \A deviceId \in DeviceIds :
           /\ \A expiry \in Expiries, userName \in UserNames, userId \in UserIdInputs :
                  Quiet(AdminGenerate(db, minted, key, deviceId, expiry, userName, userId))
           /\ Quiet(RevokeDevice(db, key, deviceId))
           /\ Quiet(UnrevokeDevice(db, key, deviceId))
    /\ \A userId \in UserIdInputs :
           /\ Quiet(RevokeUser(db, key, userId))
           /\ Quiet(UnrevokeUser(db, key, userId))
    /\ Quiet(AdminGenerate(db, minted, key, "", Day0, "A", "u1"))
    /\ Quiet(AdminGenerate(db, minted, key, "d1", 0, "A", "u1"))
    /\ Quiet(AdminGenerate(db, minted, key, "d1", 1, "A", "u1"))
    /\ Quiet(AdminGenerate(db, minted, key, "d1", Day0, "", "u1"))
    /\ Quiet(RevokeDevice(db, key, ""))
    /\ Quiet(UnrevokeDevice(db, key, ""))

\* C17: a Verify, AdminGenerate, revoke, unrevoke, GetProgress or
\* MarkPerfect call answers 200 or one of 400, 401, 403, 500, and one that
\* answers an error leaves the document exactly as it was (and mints no id).
C17_ErrorsChangeNothing ==
    /\ QuietClients
    /\ QuietAdmin(AdminKey)
    /\ QuietAdmin("wrong")

\* MarkPerfect has just refused a blank testId, the last check of the
\* handler, from a device whose license is in order
C17_Witness ==
    /\ last.req.op = "mark-perfect"
    /\ last.res.status = 400
    /\ last.res.msg = "Bad testId"
    /\ \E license \in DOMAIN db.lic :
           MarkPerfect(db, today, db.lic[license].deviceId, license, " ", "").res = last.res

\* ---- C18 ----
\* The user ids an admin may name: those of the requests and every id the
\* server can mint
NamedUserIds == SuppliedUserIds \cup MintedIds(Len(MintTable))

\* C18, as stated: a revoke or unrevoke changes only the membership of its
\* target in its revocation set, and a revoke followed by an unrevoke of
\* the same target restores the revocation sets to what they were.
C18_Original ==
    /\ \A deviceId \in DeviceIds :
           LET r == RevokeDevice(db, ADMIN_KEY, deviceId)
               u == UnrevokeDevice(db, ADMIN_KEY, deviceId)
           IN /\ r.db = [db EXCEPT !.revokedDevices = @ \cup {deviceId}]
              /\ u.db = [db EXCEPT !.revokedDevices = @ \ {deviceId}]
              /\ UnrevokeDevice(r.db, ADMIN_KEY, deviceId).db.revokedDevices
                     = db.revokedDevices
    /\ \A userId \in NamedUserIds :
           LET r == RevokeUser(db, ADMIN_KEY, userId)
               u == UnrevokeUser(db, ADMIN_KEY, userId)
           IN /\ r.db = [db EXCEPT !.revokedUsers = @ \cup {userId}]
              /\ u.db = [db EXCEPT !.revokedUsers = @ \ {userId}]
              /\ UnrevokeUser(r.db, ADMIN_KEY, userId).db.revokedUsers
                     = db.revokedUsers

\* C18, amended: a revoke adds its target to its revocation set and an
\* unrevoke removes it, and they change nothing else (no license record, no
\* progress record, not the other set), except that RevokeUser also makes
\* an empty user record (no name, no devices) for a user id that has none;
\* a revoke followed by an unrevoke of the same target leaves the target
\* out of the set, which restores the sets when the target was not revoked
\* before the revoke.
C18_Amended ==
    /\ \A deviceId \in DeviceIds :
           LET r == RevokeDevice(db, ADMIN_KEY, deviceId)
               u == UnrevokeDevice(db, ADMIN_KEY, deviceId)
               ru == UnrevokeDevice(r.db, ADMIN_KEY, deviceId)
           IN /\ r.res.status = 200 /\ u.res.status = 200
              /\ r.db = [db EXCEPT !.revokedDevices = @ \cup {deviceId}]
              /\ u.db = [db EXCEPT !.revokedDevices = @ \ {deviceId}]
              /\ ru.db = [db EXCEPT !.revokedDevices = @ \ {deviceId}]
              /\ deviceId \notin db.revokedDevices => ru.db = db
    /\ \A userId \in NamedUserIds :
           LET r == RevokeUser(db, ADMIN_KEY, userId)
               u == UnrevokeUser(db, ADMIN_KEY, userId)
               ru == UnrevokeUser(r.db, ADMIN_KEY, userId)
               known == userId \in DOMAIN db.users /\ userId \in DOMAIN db.userDevices
               touched == IF known THEN db
                          ELSE [db EXCEPT !.users = Put(db.users, userId, [userName |-> ""]),
                                          !.userDevices = Put(db.userDevices, userId, {})]
           IN /\ r.res.status = 200 /\ u.res.status = 200
              /\ r.db = [touched EXCEPT !.revokedUsers = @ \cup {userId}]
              /\ u.db = [db EXCEPT !.revokedUsers = @ \ {userId}]
              /\ ru.db = [touched EXCEPT !.revokedUsers = @ \ {userId}]
              /\ ru.db.revokedDevices = db.revokedDevices
              /\ userId \notin db.revokedUsers => ru.db.revokedUsers = db.revokedUsers

\* RevokeUser has just revoked a user id that had no record, next to the
\* license and the progress of another user, and revoking it again and
\* unrevoking it would not bring the revoked set back
C18_Witness ==
    /\ last.req.op = "revoke-user"
    /\ last.res.status = 200
    /\ last.res.userId \in db.revokedUsers
    /\ db.users[last.res.userId] = [userName |-> ""]
    /\ db.userDevices[last.res.userId] = {}
    /\ \E license \in DOMAIN db.lic :
           /\ db.lic[license].userId # last.res.userId
           /\ ~Unmarked(db, db.lic[license].userId, "t1")
    /\ UnrevokeUser(RevokeUser(db, ADMIN_KEY, last.res.userId).db, ADMIN_KEY,
                    last.res.userId).db.revokedUsers # db.revokedUsers

\* ---- C19 ----
\* C19: when two licenses bound to different devices have the same owner
\* and both devices are served, a MarkPerfect through one is what
\* GetProgress through the other reports, and the same non-empty attemptId
\* sent again through the other is deduplicated.
C19_KeyedByUser ==
    \A l1, l2 \in DOMAIN db.lic, testId \in TestIds, attemptId \in RetryIds :
        LET d1 == db.lic[l1].deviceId
            d2 == db.lic[l2].deviceId
            r1 == MarkPerfect(db, today, d1, l1, testId, attemptId)
            g2 == GetProgress(r1.db, today, d2, l2, <<testId>>)
            r2 == MarkPerfect(r1.db, today, d2, l2, testId, attemptId)
        IN (/\ d1 # d2
            /\ db.lic[l1].userId = db.lic[l2].userId
            /\ r1.res.status = 200
            /\ MarkPerfect(db, today, d2, l2, testId, attemptId).res.status = 200)
           => /\ g2.res.status = 200
              /\ g2.res.data[testId].perfectCount = r1.res.perfectCount
              /\ r1.res.perfectCount >= 1
              /\ r2.res.status = 200
              /\ attemptId # "" =>
                     (r2.res.deduped /\ r2.res.perfectCount = r1.res.perfectCount)

\* Before any other request, device d2 has just resent an attempt id that
\* device d1 had recorded, and it was deduplicated
C19_Witness ==
    /\ last.req.op = "mark-perfect"
    /\ last.res.status = 200
    /\ last.res.deduped
    /\ last.req.deviceId = "d2"
    /\ last.req.attemptId = "a20"
    /\ steps = 0
    /\ db = Practised[MaxRecent]

\* ---- C20 ----
\* C20, as stated: AdminGenerate mints a userId only for a request without
\* userId; with a userId supplied, the record it stores is owned by that
\* userId and the response returns it.
C20_SuppliedUserIdOwns ==
    \A deviceId \in DeviceIds, expiry \in Expiries, userName \in UserNames,
       userId \in UserIdInputs \cup MalformedUserIds :
        LET r == AdminGenerate(db, minted, ADMIN_KEY, deviceId, expiry, userName, userId)
        IN (r.res.status = 200 /\ minted < Len(MintTable)) =>
               /\ r.mint = 1 => userId = ""
               /\ userId # "" =>
                      /\ r.res.userId = userId
                      /\ r.db.lic[r.res.license].userId = userId

\* ---- C21 ----
\* C21: Verify never answers firstBind for a license AdminGenerate has just
\* issued, whatever device presents it and on whatever day; a Verify answers
\* firstBind only for a license string that had no record before the call and
\* has one after it; and no record is ever removed, so that no license string
\* is answered firstBind twice.
C21_FirstBindOnce ==
    /\ [](\A deviceId \in DeviceIds, expiry \in Expiries, userName \in UserNames,
             userId \in UserIdInputs :
              LET r == AdminGenerate(db, minted, ADMIN_KEY, deviceId, expiry, userName, userId)
              IN r.res.status = 200 =>
                     \A presenter \in DeviceIds, now \in Days :
                         ~VerifyLicense(r.db, now, minted + r.mint, presenter,
                                        r.res.license).res.firstBind)
    /\ [][/\ DOMAIN db.lic \subseteq DOMAIN db'.lic
          /\ (last'.req.op = "verify" /\ last'.res.firstBind) =>
                 /\ last'.req.license \notin DOMAIN db.lic
                 /\ last'.req.license \in DOMAIN db'.lic]_vars

\* A license registered by its first Verify has just been verified again,
\* and the answer was not firstBind
C21_Witness ==
    /\ last.req.op = "verify"
    /\ last.res.status = 200
    /\ ~last.res.firstBind
    /\ last.req.license \in DOMAIN db.lic
    /\ db.lic[last.req.license].userName = "User"
    /\ db.lic[last.req.license].userId \in MintedIds(minted)

\* ---- C22 ----
\* C22, as stated: the display name a successful Verify returns is the name
\* in the record of the user who owns the license, which is the name the
\* latest AdminGenerate for that user wrote.
C22_VerifyReturnsCurrentName ==
    (/\ last.req.op = "verify"
     /\ last.res.status = 200
     /\ last.res.userId \in DOMAIN db.users)
    => last.res.userName = db.users[last.res.userId].userName

\* ---- C29 ----
\* C29, as stated: while DB_FILE exists and cannot be read or parsed, no
\* operation changes what the file holds: the license records, user
\* records, revocation marks and progress records stored before stay.
C29_ReadFailureKeepsState == [][disk = "unreadable" => db' = db]_vars

\* ---- C23 ----
\* The count the progress table answers for a user and a module
Count_pg(d, userId, moduleId) ==
    LET rows == SelectProgress(d, userId)
    IN IF rows # <<>> /\ moduleId \in DOMAIN rows[1].perfect
       THEN rows[1].perfect[moduleId].perfectCount ELSE 0

\* What Verify asks of a device and its license
Gate_pg(deviceId, license) ==
    /\ license.expiry >= today
    /\ deviceId \notin db.revoked_devices
    /\ license \in DOMAIN db.licenses
    /\ db.licenses[license].device_id = deviceId

\* C23, as stated: in the Postgres variant GetProgress answers 200, and
\* MarkPerfect gets past its checks, only for an unexpired license, a device
\* that is not revoked and a license whose stored device_id is the caller's.
C23_ProgressGate ==
    [][/\ (last'.req.op = "progress-get" /\ last'.res.status = 200 /\ last' # last)
              => Gate_pg(last'.req.deviceId, last'.req.license)
       /\ \A i \in Slots :
              (txn[i] = Idle /\ txn'[i] # Idle)
                  => Gate_pg(txn'[i].deviceId, txn'[i].license)]_vars

\* ---- C24 ----
\* C24, as stated: in the Postgres variant no stored perfectCount exceeds 3.
C24_CountAtMostThree ==
    \A i \in DOMAIN db.progress :
        \A m \in DOMAIN db.progress[i].perfect :
            db.progress[i].perfect[m].perfectCount <= 3

\* ---- C25 ----
\* C25, as stated: in the Postgres variant every mark-perfect request that
\* has passed its checks completes with 200 and adds one to the stored
\* count, whatever another request does between its SELECT and its upsert.
C25_NoLostIncrement ==
    [][\A i \in Slots :
           (txn[i] # Idle /\ txn'[i] = Idle) =>
               /\ last'.res.status = 200
               /\ Count_pg(db', txn[i].userId, txn[i].moduleId)
                      = Count_pg(db, txn[i].userId, txn[i].moduleId) + 1]_vars

\* ---- C26 ----
\* C26, as stated: in the v2 server RevokeUser adds no device to the set of
\* revoked devices and UnrevokeUser removes none.
C26_UserRevocationLeavesDevices ==
    [][last'.res.status = 200 =>
          /\ last'.req.op = "revoke-user" =>
                 db'.revokedDevices \subseteq db.revokedDevices
          /\ last'.req.op = "unrevoke-user" =>
                 db.revokedDevices \subseteq db'.revokedDevices]_vars

\* ---- C27 ----
\* C27, as stated: once RevokeUser(u) has succeeded in the v2 server, Verify
\* succeeds for no license u owns, neither for one u held before nor for one
\* AdminGenerate then issues to u for any device.
C27_RevokedUserStaysOut ==
    [][(last'.req.op = "revoke-user" /\ last'.res.status = 200) =>
          LET u == last'.res.userId IN
          /\ \A l \in DOMAIN db'.lic :
                 db'.lic[l].userId = u =>
                     Verify_v2(db', today', db'.lic[l].deviceId, l).res.status # 200
          /\ \A deviceId \in DeviceIds, expiry \in Expiries, userName \in UserNames :
                 LET g == AdminGenerate_v2(db', minted', ADMIN_KEY, deviceId, expiry,
                                           userName, u)
                 IN g.res.status = 200 =>
                        Verify_v2(g.db, today', deviceId, g.res.license).res.status # 200]_vars

\* ---- C28 ----
\* C28, as stated: a success response of AdminGenerate, of a revoke or
\* unrevoke route or of MarkPerfect is sent only if the change it reports
\* has been persisted: the issued license has a record, the target is in
\* (or out of) its revocation set, the reported count is the stored count.
C28_SuccessMeansPersisted ==
    [][last'.res.status = 200 =>
          LET req == last'.req
              res == last'.res
          IN /\ req.op = "generate" => res.license \in DOMAIN db'.lic
             /\ req.op = "revoke-device" => req.deviceId \in db'.revokedDevices
             /\ req.op = "unrevoke-device" => req.deviceId \notin db'.revokedDevices
             /\ req.op = "revoke-user" => res.userId \in db'.revokedUsers
             /\ req.op = "unrevoke-user" => res.userId \notin db'.revokedUsers
             /\ req.op = "mark-perfect" =>
                    \E userId \in DOMAIN db'.progress :
                        /\ req.testId \in DOMAIN db'.progress[userId]
                        /\ db'.progress[userId][req.testId].perfectCount
                               = res.perfectCount]_vars

\* ---- C30 ----
\* C30, as stated: a MarkPerfect answered 400 "Bad testId" leaves the
\* persisted document as it was, the device-tracking set and lastSeenAt of
\* the user included.
C30_BadTestIdChangesNothing ==
    [][(/\ last'.req.op = "mark-perfect"
        /\ last'.res.status = 400
        /\ last'.res.msg = "Bad testId") => db' = db]_vars

\* ---- C31 ----
AdminRoutes_p0 ==
    {"db-status", "backup-manual", "generate", "revoke-device", "unrevoke-device",
     "revoke-user", "unrevoke-user"}

\* C31, as stated: in the atomic-write variant a request to a route under
\* /api/admin/ whose x-admin-key is missing or wrong is answered 401 or 403
\* and is told nothing about the server.
C31_AdminRoutesNeedKey ==
    [][(last' # last /\ last'.req.op \in AdminRoutes_p0 /\ last'.res.status = 200)
           => last'.req.key = ADMIN_KEY]_vars

\* ---- C32 ----
\* C32: a successful GetProgress leaves every license record, every user
\* record and both revocation sets as they were, keeps every progress bucket
\* that existed and adds at most empty ones; a tracking set only grows.
C32_GetProgressReadOnly ==
    [][(last'.req.op = "progress-get" /\ last'.res.status = 200) =>
          /\ db'.lic = db.lic
          /\ db'.users = db.users
          /\ db'.revokedDevices = db.revokedDevices
          /\ db'.revokedUsers = db.revokedUsers
          /\ DOMAIN db.progress \subseteq DOMAIN db'.progress
          /\ \A u \in DOMAIN db'.progress :
                 db'.progress[u] = IF u \in DOMAIN db.progress
                                   THEN db.progress[u] ELSE EmptyFn
          /\ DOMAIN db'.userDevices = DOMAIN db.userDevices
          /\ \A u \in DOMAIN db.userDevices :
                 db.userDevices[u] \subseteq db'.userDevices[u]]_vars

\* GetProgress has answered a user who has practised, and one who has not
C32_Witness ==
    /\ last.req.op = "progress-get"
    /\ last.res.status = 200
    /\ last.res.userId \in DOMAIN db.progress
    /\ "t1" \in DOMAIN db.progress[last.res.userId]
    /\ last.res.data["t1"].perfectCount = 3

\* ---- C33 ----
\* C33, as stated: in the Postgres variant the userId a successful
\* AdminGenerate returns is the user_id stored for the license it returns.
C33_ReturnedOwnerIsStored ==
    [][(last'.req.op = "generate" /\ last'.res.status = 200) =>
          /\ last'.res.license \in DOMAIN db'.licenses
          /\ db'.licenses[last'.res.license].user_id = last'.res.userId]_vars

\* ---- C34 ----
\* C34, as stated: Verify of an unexpired license of the old format, which
\* carries the whole digest of its device and expiry, presented by that
\* device while it is not revoked, passes the format and signature checks.
C34_LegacyFormatVerifies ==
    \A deviceId \in DeviceIds, expiry \in Expiries :
        (expiry >= today /\ deviceId \notin loadDB.revokedDevices) =>
            VerifyLicense(loadDB, today, minted, deviceId, Legacy(deviceId, expiry)).res.msg
                \notin {"Bad license format", "Invalid"}

\* ---- C35 ----
\* C35, as stated: the document never holds two license records whose
\* license strings parse to the same expiry and signature.
C35_OneRecordPerSignature ==
    \A l1 \in DOMAIN db.lic, l2 \in DOMAIN db.lic :
        (/\ l1.fmt \in {"N1", "old"}
         /\ l2.fmt = l1.fmt
         /\ l2.expiry = l1.expiry
         /\ l2.hash = l1.hash) => l1 = l2

\* ---- C36 ----
\* The calls that count for a user and a test: the distinct attempt ids
\* submitted and the calls made without one
Counted(userId, tid) ==
    IF <<userId, tid>> \in DOMAIN submitted.of
    THEN Cardinality(submitted.of[<<userId, tid>>].ids) + submitted.of[<<userId, tid>>].anon
    ELSE 0

\* C36: the stored perfectCount of every user and test is the number of
\* distinct attempt ids submitted plus the calls without an id, at most 3;
\* an id that has left the buffer of 20 does not count again.
C36_CountIsDistinctAttempts ==
    /\ \A key \in DOMAIN submitted.of :
           /\ key[1] \in DOMAIN db.progress
           /\ key[2] \in DOMAIN db.progress[key[1]]
    /\ \A userId \in DOMAIN db.progress :
           \A tid \in DOMAIN db.progress[userId] :
               db.progress[userId][tid].perfectCount
                   = IF Counted(userId, tid) < 3 THEN Counted(userId, tid) ELSE 3

\* An id that the buffer has dropped has been submitted once more and
\* was not taken for a repetition
C36_Witness ==
    /\ last.req.op = "mark-perfect"
    /\ last.res.status = 200
    /\ ~last.res.deduped
    /\ last.req.attemptId = "a1"
    /\ <<"u1", "t1">> \in DOMAIN submitted.of
    /\ Cardinality(submitted.of[<<"u1", "t1">>].ids) = MaxRecent + 1
    /\ db.progress["u1"]["t1"].recentAttempts[MaxRecent] = "a1"

\* ---- C37 ----
\* C37: whichever requests are under way together, the response of each and
\* the document it leaves are those of its handler applied to the document
\* the request before it has left: the requests take effect one after the
\* other, in the order they are answered, and no update is lost.
C37_OneAfterTheOther ==
    [][\A i \in Slots :
           (txn[i].pc = "loaded" /\ txn'[i] = Idle) =>
               LET r == Handle(db, txn[i].req)
               IN /\ last'.res = r.res
                  /\ db' = r.db]_vars

\* Two MarkPerfect calls were under way together and both have counted
C37_Witness ==
    /\ \A i \in Slots : txn[i] = Idle
    /\ last.req.op = "mark-perfect"
    /\ last.res.perfectCount = 2
    /\ steps = 2

\* ---- C38 ----
\* C38: the owner of every license record has a user record, and the
\* device of the record is in the owner's device-tracking set.
C38_OwnerTracksDevice ==
    \A license \in DOMAIN db.lic :
        LET rec == db.lic[license] IN
        /\ rec.userId \in DOMAIN db.users
        /\ rec.userId \in DOMAIN db.userDevices
        /\ rec.deviceId \in db.userDevices[rec.userId]

\* A license registered by Verify and a license issued by AdminGenerate
C38_Witness ==
    \E l1 \in DOMAIN db.lic, l2 \in DOMAIN db.lic :
        /\ db.lic[l1].userId \in MintedIds(minted)
        /\ db.lic[l2].userId \in SuppliedUserIds

\* ---- C39 ----
\* C39, as stated: in the v2 variant two license records that had no userId
\* and are bound to different devices are never given the same userId.
C39_LegacyOwnersApart ==
    \A l1 \in DOMAIN db.lic, l2 \in DOMAIN db.lic :
        (/\ db.lic[l1].userId \in {"LEG_User", "LEG_A", "LEG_other"}
         /\ db.lic[l1].userId = db.lic[l2].userId)
            => db.lic[l1].deviceId = db.lic[l2].deviceId

\* ---- C40 ----
\* C40, as stated: every stored count is between 0 and 3 and completed is
\* true exactly when it is 3; and every valid submission, whatever other
\* submissions are handled with it, finds the client open, is answered 200
\* and leaves the stored count one higher, up to 3.
C40_EverySubmissionCounts ==
    /\ [](\A testKey \in DOMAIN db.test_results :
              /\ db.test_results[testKey].count \in 0..3
              /\ db.test_results[testKey].completed
                     <=> db.test_results[testKey].count = 3)
    /\ [][\A i \in Slots :
              /\ (txn[i].pc = "connected" /\ txn'[i] # txn[i]) => db.client = "open"
              /\ (txn[i].pc = "found" /\ txn'[i] = Idle) =>
                     /\ last'.res.status = 200
                     /\ FindOne(db', TestKey(txn[i].req.userId, txn[i].req.testId))
                            = Counted_m(FindOne(db, TestKey(txn[i].req.userId,
                                                            txn[i].req.testId)))]_vars

====
